---- MODULE Spec2Model ----
(***************************************************************************)
(* A model of the two subsystems of dnscrypt-proxy that live in            *)
(* src/dnscrypt/serversInfo.go (the upstream-server registry and load      *)
(* balancer, ServersInfo) and src/dnscrypt/plugins.go (the plugin          *)
(* pipeline, PluginsState / PluginsGlobals).                               *)
(*                                                                         *)
(* Conventions.  Go slices are sequences, so Go index i is index i+1 here. *)
(* A *ServerInfo is an index into the heap objs; 0 is the nil pointer; an   *)
(* object no pointer reaches is collected and its index used again.        *)
(* Every section of code that runs with serversInfo.Lock or RLock held is  *)
(* one atomic action; what runs between two such sections (the range over  *)
(* the registry snapshot, the network probe) is a separate step.  Times    *)
(* and round-trip times are integers in milliseconds; the EWMA is kept in  *)
(* whole milliseconds.                                                     *)
(***************************************************************************)
EXTENDS Integers, Sequences, FiniteSets, TLC

(***************************************************************************)
(* Bounds of the model.                                                    *)
(***************************************************************************)
MaxRegister == 2      \* registerServer calls in a run
MaxRefresh == 2       \* refresh calls in a run
MaxAdd == 1           \* rtt.Add calls in a run
MaxGetOne == 1        \* getOne calls in a run
MaxTicks == 1         \* clock advances in a run
MaxPool == 6          \* servers of the pools getOne is tried on
TickMs == 50          \* the short clock advance, in ms
MaxRequest == 1       \* requests in a run of the pipeline
MaxReload == 1        \* InitPluginsGlobals calls after the first
MaxHashes == 2        \* hashes in a stamp
MaxCerts == 2         \* certificates a server presents
MaxRelays == 2        \* relays in the list of a route
MaxRegistered == 2    \* entries in each registry of the proxy

(***************************************************************************)
(* Program constants.                                                      *)
(***************************************************************************)
RTTEwmaDecay == 10
Minute == 60000
Sha256Size == 32      \* sha256.Size, the length of wantedHash
Star == 0             \* the key "*" of proxy.Routes, among the names 1, 2
ZeroTS == -1          \* the zero time.Time of a ServerInfo never used

Names == {1, 2}                 \* server names
Stamps == {1, 2}                \* server stamps (opaque)
Rtts == {10, 40}                \* initialRtt values a probe may measure, ms
TimeoutMs == 2 * TickMs         \* proxy.Timeout
Delays == {TickMs, Minute + 1}  \* clock advances
Strategies == {"None", "P2", "PH", "First", "Random"}
RefreshProcs == {"r1", "r2"}    \* goroutines that call refresh
Clients == {"c1"}               \* goroutines that serve a query

VARIABLES
    registeredServers,  \* ServersInfo.registeredServers: Seq of [Name, Stamp]
    inner,              \* ServersInfo.inner: Seq of pointers into objs
    objs,               \* the ServerInfo objects ever created, by pointer
    LBStrategy,         \* ServersInfo.LBStrategy
    LBEstimator,        \* ServersInfo.LBEstimator
    now,                \* the wall clock, ms
    rpc,                \* refresh: where each refresh goroutine stands
    snap,               \* refresh: its local registeredServers (line 131)
    ridx,               \* refresh: the range index of its loop (line 135)
    cur,                \* refreshServer: its arguments name, stamp
    isNew,              \* refreshServer: isNew as computed under RLock
    liveServers,        \* refresh: its local liveServers
    rerr,               \* refresh: its local err (0 is nil)
    cpc,                \* where each client stands
    srv,                \* the pointer getOne returned to the client
    tnow,               \* noticeSuccess: its local now (line 429)
    begunAt,            \* history: when the client's own noticeBegin ran
    nRegister, nRefresh, nAdd, nTicks, nGetOne,   \* counters for the bounds
    ev,                 \* history: the step just taken
    lastReg,            \* history: stamp of the last registerServer per name
    lastFail,           \* history: error of the last failed attempt, per refresh
    insSeq,             \* history: names in the order they were appended to inner
    instSeq,            \* history: names in the order of their last installation
    lastInstall,        \* history: pointer last installed per name
    tear,               \* history: the pool's length when each running refresh
                        \* started, and as getOne first saw it changed
    clean,              \* history: sorted by a refresh of fresh entries, untouched since
    pluginsGlobals,     \* PluginsGlobals: the three plugin sequences, the blocked response
    initpc,             \* InitPluginsGlobals: the assignments of lines 149-151 done so far
    newPlugins,         \* InitPluginsGlobals: the sequences it has built
    pluginsState,       \* the PluginsState of the request
    ppc,                \* where the request stands
    packet,             \* the stage's argument packet
    msg,                \* the stage's local msg
    plugins,            \* the sequence the stage's range iterates
    pidx,               \* the index of that range
    ret,                \* what the stage returned
    evald,              \* history: the Eval calls of the stage, in order
    gen,                \* history: the InitPluginsGlobals call each sequence is from
    reads,              \* history: the generations the reads of the running stage
                        \* invocation have seen, up to its range expression
    nRequest, nReload,  \* counters for the bounds
    dohStamp,           \* fetchDoHServerInfo: its argument stamp
    dohResp,            \* fetchDoHServerInfo: what the transport answers
    fetched,            \* fetchDoHServerInfo: what it returned
    proxy,              \* route: proxy.Routes and the two registries of the proxy
    routeName,          \* route: its argument name
    routed,             \* route: what it returned
    mu,                 \* the RWMutex of ServersInfo: its writer, its readers
    lpc,                \* the source line each goroutine stands at (0: in no call)
    todo                \* refresh: the entries its range has left (line 135)

poolVars == <<registeredServers, inner, objs, LBStrategy, LBEstimator, now>>
refVars == <<rpc, snap, ridx, cur, isNew, liveServers, rerr>>
cliVars == <<cpc, srv, tnow, begunAt>>
cntVars == <<nRegister, nRefresh, nAdd, nTicks, nGetOne>>
histVars == <<ev, lastReg, lastFail, insSeq, instSeq, lastInstall, tear, clean>>
plugVars == <<pluginsGlobals, initpc, newPlugins, pluginsState, ppc, packet, msg,
              plugins, pidx, ret, evald, gen, reads, nRequest, nReload>>
fetchVars == <<dohStamp, dohResp, fetched, proxy, routeName, routed>>
lockVars == <<mu, lpc, todo>>
vars == <<poolVars, refVars, cliVars, cntVars, histVars, plugVars, fetchVars,
         lockVars>>

(***************************************************************************)
(* Shared utilities.                                                       *)
(***************************************************************************)
Range(s) == {s[i] : i \in DOMAIN s}

\* The sequences over S of length n at most.
SeqsUpTo(S, n) == UNION {[1..k -> S] : k \in 0..n}

Min(a, b) == IF a < b THEN a ELSE b

Max(a, b) == IF a > b THEN a ELSE b

MinF(a, b) == IF a < b THEN a ELSE b

MaxF(a, b) == IF a > b THEN a ELSE b

\* ewma.MovingAverage.Add on a value that was Set: value <- (value*(N-1) + sample)/N
EwmaAdd(value, sample) == (value * (RTTEwmaDecay - 1) + sample) \div RTTEwmaDecay

\* time.Since(ts) / now.Sub(ts), which saturates for the zero time
Elapsed(t, ts) == IF ts = ZeroTS THEN Minute + TimeoutMs + 1 ELSE t - ts

\* The step just taken: the operation, the goroutine, an argument or result,
\* and for the return of refresh its results, the last failed attempt, and
\* torn: a getOne that ran meanwhile saw a pool whose length is neither the one
\* before this refresh nor the one after it.
Ev(op, who, arg) ==
    [op |-> op, who |-> who, arg |-> arg, live |-> 0, err |-> 0, fail |-> 0,
     torn |-> FALSE]

(***************************************************************************)
(* ServersInfo: pure parts.                                                *)
(***************************************************************************)
\* A variant of Swap that copies one way only.
SwapOverwriting(s, i, j) == [s EXCEPT ![i] = s[j]]

\* The exchange of two entries: lines 172 and 186.
Swap(s, i, j) == [s EXCEPT ![i] = s[j], ![j] = s[i]]

\* The scan of refreshServer (lines 94-100, and again 111-119): no entry of
\* the pool has this name.
NameIsNew(in, ob, name) == \A i \in DOMAIN in : ob[in[i]].Name # name

\* A refreshServer that overwrites the head of the pool whatever its name.
SlotOfFirst(in, ob, name) == 1

\* The first index of the pool whose entry has this name.
SlotOf(in, ob, name) ==
    CHOOSE i \in DOMAIN in :
        /\ ob[in[i]].Name = name
        /\ \A j \in 1..(i - 1) : ob[in[j]].Name # name

\* registerServer, lines 79-89: replace the first entry of that name, or append.
RegisterResult(reg, name, stamp) ==
    IF \E i \in DOMAIN reg : reg[i].Name = name
    THEN LET i == CHOOSE k \in DOMAIN reg :
                      /\ reg[k].Name = name
                      /\ \A j \in 1..(k - 1) : reg[j].Name # name
         IN  [reg EXCEPT ![i] = [Name |-> name, Stamp |-> stamp]]
    ELSE Append(reg, [Name |-> name, Stamp |-> stamp])

\* The ServerInfo a successful fetchServerInfo returns, with its rtt seeded
\* (lines 109-110): lastActionTS is the zero time.
NewServer(name, initialRtt) ==
    [Name |-> name, initialRtt |-> initialRtt, rtt |-> initialRtt,
     lastActionTS |-> ZeroTS]

\* A less function that sorts the slowest server first.
LessDescending(ob, x, y) == ob[x].initialRtt > ob[y].initialRtt

\* A less function that is not strict, which makes the sort unstable.
LessOrEqual(ob, x, y) == ob[x].initialRtt <= ob[y].initialRtt

\* The less function of refresh's sort.SliceStable, lines 141-143.
Less(ob, x, y) == ob[x].initialRtt < ob[y].initialRtt

\* sort.SliceStable on fewer than 20 elements is an insertion sort:
\* for i := 1; i < n; i++ { for j := i; j > 0 && less(j, j-1); j-- { swap } }
RECURSIVE SinkLeft(_, _, _)
SinkLeft(s, j, ob) ==
    IF j > 1 /\ Less(ob, s[j], s[j - 1])
    THEN SinkLeft(Swap(s, j, j - 1), j - 1, ob)
    ELSE s

RECURSIVE InsertionSort(_, _, _)
InsertionSort(s, i, ob) ==
    IF i > Len(s) THEN s ELSE InsertionSort(SinkLeft(s, i, ob), i + 1, ob)

SortStable(in, ob) == InsertionSort(in, 2, ob)

\* A variant of BubblePass with the comparison reversed.
RECURSIVE BubblePassReversed(_, _, _)
BubblePassReversed(s, i, ob) ==
    IF i > Len(s) THEN s
    ELSE IF ob[s[i - 1]].rtt < ob[s[i]].rtt
         THEN BubblePassReversed(Swap(s, i - 1, i), i + 1, ob)
         ELSE BubblePassReversed(s, i + 1, ob)

\* The single pass of estimatorUpdate, lines 183-188.
RECURSIVE BubblePass(_, _, _)
BubblePass(s, i, ob) ==
    IF i > Len(s) THEN s
    ELSE IF ob[s[i - 1]].rtt > ob[s[i]].rtt
         THEN BubblePass(Swap(s, i - 1, i), i + 1, ob)
         ELSE BubblePass(s, i + 1, ob)

\* estimatorUpdate, line 171: the candidate beats the current best.
CandidateWins(candidateRtt, currentBestRtt) == candidateRtt < currentBestRtt

\* A variant of SecondChanceSample that doubles where the code halves and
\* leaves out the clamp to the candidate's own value.
SecondChanceSampleDoubled(candidateRtt, currentBestRtt) ==
    MaxF(candidateRtt * 2, currentBestRtt * 2)

\* estimatorUpdate, line 177: the sample fed to the candidate's EWMA.
SecondChanceSample(candidateRtt, currentBestRtt) ==
    MinF(MaxF(candidateRtt \div 2, currentBestRtt * 2), candidateRtt)

\* estimatorUpdate, lines 159-190, for the candidate rand.Intn drew (cand is
\* the Go index plus one) at time t.  added: rtt.Add was called.
EstimatorUpdate(in, ob, cand, t) ==
    IF cand = 1 THEN [inner |-> in, objs |-> ob, added |-> FALSE]
    ELSE
    LET candidateRtt == ob[in[cand]].rtt
        best0 == ob[in[1]].rtt
        currentBestRtt == IF best0 < 0 THEN candidateRtt ELSE best0
        ob1 == IF best0 < 0 THEN [ob EXCEPT ![in[1]].rtt = currentBestRtt] ELSE ob
        swap == CandidateWins(candidateRtt, currentBestRtt)
        second == /\ ~swap
                  /\ candidateRtt > 0
                  /\ candidateRtt >= currentBestRtt * 4
                  /\ Elapsed(t, ob1[in[cand]].lastActionTS) > Minute
        in1 == IF swap THEN Swap(in, cand, 1) ELSE in
        ob2 == IF second
               THEN [ob1 EXCEPT ![in[cand]].rtt =
                        EwmaAdd(@, SecondChanceSample(candidateRtt, currentBestRtt))]
               ELSE ob1
        in2 == IF swap \/ second THEN BubblePass(in1, 2, ob2) ELSE in1
    IN  [inner |-> in2, objs |-> ob2, added |-> second]

\* getOne, lines 203-212: the bound passed to rand.Intn (candidate = 0 for First).
CandidateBound(strategy, serversCount) ==
    CASE strategy = "First" -> 1
      [] strategy = "PH" -> Max(Min(serversCount, 2), serversCount \div 2)
      [] strategy = "Random" -> serversCount
      [] OTHER -> Min(serversCount, 2)

\* A getOne that indexes the pool as it was before the estimator ran.
SelectedBefore(inBefore, inAfter, candidate) == inBefore[candidate]

\* getOne, line 213: the server returned, given the pool on entry, the pool
\* the estimator left, and the candidate drawn.
Selected(inBefore, inAfter, candidate) == inAfter[candidate]

(***************************************************************************)
(* The heap of ServerInfo objects.                                         *)
(***************************************************************************)
Dead == [Name |-> 0, initialRtt |-> 0, rtt |-> 0, lastActionTS |-> ZeroTS]

\* The pointer a new object gets: the first collected index, or a new one.
Alloc(ob) ==
    IF \E i \in DOMAIN ob : ob[i] = Dead
    THEN CHOOSE i \in DOMAIN ob : ob[i] = Dead /\ \A j \in 1..(i - 1) : ob[j] # Dead
    ELSE Len(ob) + 1

Store(ob, ptr, rec) ==
    IF ptr <= Len(ob) THEN [ob EXCEPT ![ptr] = rec] ELSE Append(ob, rec)

\* Objects that neither the pool nor a client's pointer reaches are collected.
Collect(ob, in, held) ==
    [i \in DOMAIN ob |-> IF i \in Range(in) \cup held THEN ob[i] ELSE Dead]

Without(s, x) == SelectSeq(s, LAMBDA y : y # x)

(***************************************************************************)
(* ServersInfo: the operations.                                            *)
(***************************************************************************)
Held == {srv[c] : c \in DOMAIN srv} \ {0}

NoRefresh == [p \in RefreshProcs |-> 0]

NoCur == [Name |-> 0, Stamp |-> 0]

NoTear == [pre |-> 0, seen |-> -1]

\* No refresh is running, no client holds a server, the clock is at 0.
Requests == {"c1", "c2"}

Registrars == {"g1"}          \* goroutines that call registerServer

Goroutines == RefreshProcs \cup Requests \cup Registrars

\* The zero RWMutex (line 67), with no goroutine in a call.
InitMutex ==
    /\ mu = [w |-> "", r |-> {}]
    /\ lpc = [p \in Goroutines |-> 0]
    /\ todo = [p \in RefreshProcs |-> 0]

InitLocals ==
    /\ InitMutex
    /\ now = 0
    /\ rpc = [p \in RefreshProcs |-> "idle"]
    /\ snap = [p \in RefreshProcs |-> <<>>]
    /\ ridx = NoRefresh
    /\ cur = [p \in RefreshProcs |-> NoCur]
    /\ isNew = [p \in RefreshProcs |-> FALSE]
    /\ liveServers = NoRefresh
    /\ rerr = NoRefresh
    /\ cpc = [c \in Clients |-> "idle"]
    /\ srv = [c \in Clients |-> 0]
    /\ tnow = [c \in Clients |-> 0]
    /\ begunAt = [c \in Clients |-> 0]
    /\ nRegister = 0 /\ nRefresh = 0 /\ nAdd = 0 /\ nTicks = 0 /\ nGetOne = 0
    /\ ev = Ev("init", "", 0)
    /\ lastFail = NoRefresh
    /\ tear = [p \in RefreshProcs |-> NoTear]
    /\ clean = FALSE

\* NewServersInfo, lines 74-76: nothing registered, nothing live.
InitPool ==
    /\ registeredServers = <<>>
    /\ inner = <<>>
    /\ objs = <<>>
    /\ lastReg = [n \in Names |-> 0]
    /\ insSeq = <<>>
    /\ instSeq = <<>>
    /\ lastInstall = [n \in Names |-> 0]
    /\ InitLocals

\* registerServer(name, stamp), lines 78-90.
RegisterServer(name, stamp) ==
    /\ nRegister < MaxRegister
    /\ registeredServers' = RegisterResult(registeredServers, name, stamp)
    /\ nRegister' = nRegister + 1
    /\ lastReg' = [lastReg EXCEPT ![name] = stamp]
    /\ ev' = Ev("register", "", name)
    /\ UNCHANGED <<inner, objs, LBStrategy, LBEstimator, now>>
    /\ UNCHANGED <<refVars, cliVars, nRefresh, nAdd, nTicks, nGetOne>>
    /\ UNCHANGED <<lastFail, insSeq, instSeq, lastInstall, tear, clean>>
    /\ UNCHANGED <<plugVars, fetchVars, lockVars>>

\* refresh, lines 128-134: the registry is copied (a slice header) under RLock.
\* The goroutines are interchangeable: of two idle ones, r1 is the one to start.
RefreshStart(p) ==
    /\ rpc[p] = "idle"
    /\ p = "r2" => rpc["r1"] # "idle"
    /\ nRefresh < MaxRefresh
    /\ nRefresh' = nRefresh + 1
    /\ snap' = [snap EXCEPT ![p] = registeredServers]
    /\ ridx' = [ridx EXCEPT ![p] = 1]
    /\ liveServers' = [liveServers EXCEPT ![p] = 0]
    /\ rerr' = [rerr EXCEPT ![p] = 0]
    /\ rpc' = [rpc EXCEPT ![p] = "loop"]
    /\ ev' = Ev("refreshStart", p, 0)
    /\ tear' = [tear EXCEPT ![p] = [pre |-> Len(inner), seen |-> -1]]
    /\ UNCHANGED <<poolVars, cur, isNew, cliVars, nRegister, nAdd, nTicks, nGetOne>>
    /\ UNCHANGED <<lastReg, lastFail, insSeq, instSeq, lastInstall, clean>>
    /\ UNCHANGED <<plugVars, fetchVars, lockVars>>

\* The element the range of line 135 reads at index i.  The slice shares its
\* array with the registry unless an append has moved the registry since; the
\* read is not under the lock, so it yields the element as copied or as
\* registerServer has overwritten it since.
RangeReads(p, i) == {snap[p][i], registeredServers[i]}

\* refresh lines 135-136 and refreshServer lines 93-101: the next element of
\* the range is read, and isNew computed under RLock.
RefreshServerBegin(p) ==
    /\ rpc[p] = "loop"
    /\ ridx[p] <= Len(snap[p])
    /\ \E e \in RangeReads(p, ridx[p]) :
          /\ cur' = [cur EXCEPT ![p] = e]
          /\ isNew' = [isNew EXCEPT ![p] = NameIsNew(inner, objs, e.Name)]
    /\ rpc' = [rpc EXCEPT ![p] = "fetch"]
    /\ ev' = Ev("refreshServerBegin", p, 0)
    /\ UNCHANGED <<poolVars, snap, ridx, liveServers, rerr, cliVars, cntVars>>
    /\ UNCHANGED <<lastReg, lastFail, insSeq, instSeq, lastInstall, tear, clean>>
    /\ UNCHANGED <<plugVars, fetchVars, lockVars>>

\* A refreshServer that trusts the isNew it computed before the probe.
WriteIsNewStale(p, name) == isNew[p]

\* refreshServer lines 111-119: isNew as decided again under Lock.
WriteIsNew(p, name) == NameIsNew(inner, objs, name)

\* A refreshServer that, when the probe fails, drops the entry of that name.
PoolAfterFailureDropping(p) ==
    LET in1 == SelectSeq(inner, LAMBDA x : objs[x].Name # cur[p].Name)
    IN  [inner |-> in1, objs |-> Collect(objs, in1, Held),
         reg |-> registeredServers, appended |-> FALSE]

\* refreshServer lines 102-105: the probe failed and refreshServer returns;
\* what the pool and the registry are afterwards.
PoolAfterFailure(p) ==
    [inner |-> inner, objs |-> objs, reg |-> registeredServers, appended |-> FALSE]

\* refreshServer lines 102-125 from the return of fetchServerInfo on: what
\* the pool and the registry are afterwards.  ok: the probe succeeded,
\* measuring initialRtt.
PoolAfterFetch(p, ok, initialRtt) ==
    LET name == cur[p].Name
        ptr == Alloc(objs)
        ob1 == Store(objs, ptr, NewServer(name, initialRtt))
    IN  IF ~ok
        THEN PoolAfterFailure(p)
        ELSE IF WriteIsNew(p, name)
        THEN [inner |-> Append(inner, ptr),
              objs |-> ob1,
              reg |-> Append(registeredServers, cur[p]),
              appended |-> TRUE]
        ELSE LET in1 == [inner EXCEPT ![SlotOf(inner, objs, name)] = ptr]
             IN  [inner |-> in1,
                  objs |-> Collect(ob1, in1, Held),
                  reg |-> registeredServers,
                  appended |-> FALSE]

\* refreshServer lines 102, 106-125 and refresh lines 136-138: the probe
\* succeeded; the new ServerInfo replaces the slot of its name or is appended.
RefreshServerOk(p, initialRtt) ==
    /\ rpc[p] = "fetch"
    /\ LET r == PoolAfterFetch(p, TRUE, initialRtt)
       IN  /\ inner' = r.inner
           /\ objs' = r.objs
           /\ registeredServers' = r.reg
           /\ insSeq' = IF r.appended THEN Append(insSeq, cur[p].Name) ELSE insSeq
           /\ ev' = Ev("install", p, IF r.appended THEN 1 ELSE 0)
    /\ instSeq' = Append(Without(instSeq, cur[p].Name), cur[p].Name)
    /\ lastInstall' = [lastInstall EXCEPT ![cur[p].Name] = Alloc(objs)]
    /\ liveServers' = [liveServers EXCEPT ![p] = @ + 1]
    /\ rerr' = [rerr EXCEPT ![p] = 0]
    /\ ridx' = [ridx EXCEPT ![p] = @ + 1]
    /\ rpc' = [rpc EXCEPT ![p] = "loop"]
    /\ clean' = FALSE
    /\ UNCHANGED <<LBStrategy, LBEstimator, now, snap, cur, isNew, cliVars, cntVars>>
    /\ UNCHANGED <<lastReg, lastFail, tear>>
    /\ UNCHANGED <<plugVars, fetchVars, lockVars>>

\* refreshServer lines 102-105 and refresh line 136: the probe failed; the
\* error (named after the server) is assigned to refresh's err.
RefreshServerFail(p) ==
    /\ rpc[p] = "fetch"
    /\ LET r == PoolAfterFetch(p, FALSE, 0)
       IN  /\ inner' = r.inner
           /\ objs' = r.objs
           /\ registeredServers' = r.reg
    /\ rerr' = [rerr EXCEPT ![p] = cur[p].Name]
    /\ lastFail' = [lastFail EXCEPT ![p] = cur[p].Name]
    /\ ridx' = [ridx EXCEPT ![p] = @ + 1]
    /\ rpc' = [rpc EXCEPT ![p] = "loop"]
    /\ ev' = Ev("fetchFail", p, cur[p].Name)
    /\ UNCHANGED <<LBStrategy, LBEstimator, now, snap, cur, isNew, liveServers>>
    /\ UNCHANGED <<cliVars, cntVars>>
    /\ UNCHANGED <<lastReg, insSeq, instSeq, lastInstall, tear, clean>>
    /\ UNCHANGED <<plugVars, fetchVars, lockVars>>

Fresh(in, ob) == \A i \in DOMAIN in : ob[in[i]].rtt = ob[in[i]].initialRtt

\* refresh lines 140-156: the range is over; the pool is sorted under Lock and
\* refresh returns liveServers and err, which ev records.
RefreshSort(p) ==
    /\ rpc[p] = "loop"
    /\ ridx[p] > Len(snap[p])
    /\ inner' = SortStable(inner, objs)
    /\ rpc' = [rpc EXCEPT ![p] = "idle"]
    /\ snap' = [snap EXCEPT ![p] = <<>>]
    /\ ridx' = [ridx EXCEPT ![p] = 0]
    /\ cur' = [cur EXCEPT ![p] = NoCur]
    /\ isNew' = [isNew EXCEPT ![p] = FALSE]
    /\ liveServers' = [liveServers EXCEPT ![p] = 0]
    /\ rerr' = [rerr EXCEPT ![p] = 0]
    /\ lastFail' = [lastFail EXCEPT ![p] = 0]
    /\ tear' = [tear EXCEPT ![p] = NoTear]
    /\ clean' = (inner # <<>> /\ Fresh(inner, objs))
    /\ ev' = [op |-> "sort", who |-> p, arg |-> 0, live |-> liveServers[p],
              err |-> rerr[p], fail |-> lastFail[p],
              torn |-> tear[p].seen \notin {-1, Len(inner)}]
    /\ UNCHANGED <<registeredServers, objs, LBStrategy, LBEstimator, now>>
    /\ UNCHANGED <<cliVars, cntVars>>
    /\ UNCHANGED <<lastReg, insSeq, instSeq, lastInstall>>
    /\ UNCHANGED <<plugVars, fetchVars, lockVars>>

\* getOne looked at the pool: for each running refresh, the first length it
\* saw that is not the length the pool had when that refresh started.
TearOnGetOne ==
    [p \in RefreshProcs |->
        IF rpc[p] # "idle" /\ tear[p].seen = -1 /\ Len(inner) # tear[p].pre
        THEN [tear[p] EXCEPT !.seen = Len(inner)]
        ELSE tear[p]]

\* getOne, lines 192-198, on an empty pool: nil.
GetOneNone(c) ==
    /\ cpc[c] = "idle"
    /\ inner = <<>>
    /\ nGetOne < MaxGetOne
    /\ nGetOne' = nGetOne + 1
    /\ srv' = [srv EXCEPT ![c] = 0]
    /\ tear' = TearOnGetOne
    /\ ev' = Ev("getOne", c, 0)
    /\ UNCHANGED <<poolVars, refVars, cpc, tnow, begunAt>>
    /\ UNCHANGED <<nRegister, nRefresh, nAdd, nTicks>>
    /\ UNCHANGED <<lastReg, lastFail, insSeq, instSeq, lastInstall, clean>>
    /\ UNCHANGED <<plugVars, fetchVars, lockVars>>

\* getOne, lines 192-217, on a pool of serversCount > 0 servers: est is the
\* candidate estimatorUpdate draws, candidate the one getOne draws, which ev
\* records.
GetOne(c) ==
    /\ cpc[c] = "idle"
    /\ inner # <<>>
    /\ nGetOne < MaxGetOne
    /\ nGetOne' = nGetOne + 1
    /\ \E est \in 1..Len(inner) :
          LET e == IF LBEstimator
                   THEN EstimatorUpdate(inner, objs, est, now)
                   ELSE [inner |-> inner, objs |-> objs, added |-> FALSE]
          IN  /\ e.added => nAdd < MaxAdd
              /\ nAdd' = IF e.added THEN nAdd + 1 ELSE nAdd
              /\ inner' = e.inner
              /\ objs' = e.objs
              /\ clean' = (clean /\ ~e.added)
              /\ \E candidate \in 1..CandidateBound(LBStrategy, Len(inner)) :
                    /\ srv' = [srv EXCEPT ![c] = Selected(inner, e.inner, candidate)]
                    /\ ev' = Ev("getOne", c, candidate)
    /\ cpc' = [cpc EXCEPT ![c] = "got"]
    /\ tear' = TearOnGetOne
    /\ UNCHANGED <<registeredServers, LBStrategy, LBEstimator, now>>
    /\ UNCHANGED <<refVars, tnow, begunAt, nRegister, nRefresh, nTicks>>
    /\ UNCHANGED <<lastReg, lastFail, insSeq, instSeq, lastInstall>>
    /\ UNCHANGED <<plugVars, fetchVars, lockVars>>

\* noticeBegin, lines 422-426.
NoticeBegin(c) ==
    /\ cpc[c] = "got"
    /\ objs' = [objs EXCEPT ![srv[c]].lastActionTS = now]
    /\ cpc' = [cpc EXCEPT ![c] = "begun"]
    /\ ev' = Ev("noticeBegin", c, 0)
    /\ UNCHANGED <<registeredServers, inner, LBStrategy, LBEstimator, now>>
    /\ begunAt' = [begunAt EXCEPT ![c] = now]
    /\ UNCHANGED <<refVars, srv, tnow, cntVars>>
    /\ UNCHANGED <<lastReg, lastFail, insSeq, instSeq, lastInstall, tear, clean>>
    /\ UNCHANGED <<plugVars, fetchVars, lockVars>>

\* noticeFailure, lines 416-420; the client is done with the server.
NoticeFailure(c) ==
    /\ cpc[c] = "begun"
    /\ nAdd < MaxAdd
    /\ nAdd' = nAdd + 1
    /\ objs' = Collect([objs EXCEPT ![srv[c]].rtt = EwmaAdd(@, TimeoutMs)],
                       inner, Held \ {srv[c]})
    /\ cpc' = [cpc EXCEPT ![c] = "idle"]
    /\ srv' = [srv EXCEPT ![c] = 0]
    /\ clean' = FALSE
    /\ ev' = Ev("noticeFailure", c, 0)
    /\ UNCHANGED <<registeredServers, inner, LBStrategy, LBEstimator, now>>
    /\ begunAt' = [begunAt EXCEPT ![c] = 0]
    /\ UNCHANGED <<refVars, tnow, nRegister, nRefresh, nTicks, nGetOne>>
    /\ UNCHANGED <<lastReg, lastFail, insSeq, instSeq, lastInstall, tear>>
    /\ UNCHANGED <<plugVars, fetchVars, lockVars>>

\* noticeSuccess, line 429: now is read before the lock is taken.
NoticeSuccessNow(c) ==
    /\ cpc[c] = "begun"
    /\ tnow' = [tnow EXCEPT ![c] = now]
    /\ cpc' = [cpc EXCEPT ![c] = "success"]
    /\ ev' = Ev("noticeSuccessNow", c, 0)
    /\ UNCHANGED <<poolVars, refVars, srv, begunAt, cntVars>>
    /\ UNCHANGED <<lastReg, lastFail, insSeq, instSeq, lastInstall, tear, clean>>
    /\ UNCHANGED <<plugVars, fetchVars, lockVars>>

\* noticeSuccess, lines 430-436; the client is done with the server.
NoticeSuccess(c) ==
    /\ cpc[c] = "success"
    /\ LET elapsed == Elapsed(tnow[c], objs[srv[c]].lastActionTS)
           add == elapsed > 0 /\ elapsed < TimeoutMs
           ob1 == IF add THEN [objs EXCEPT ![srv[c]].rtt = EwmaAdd(@, elapsed)]
                         ELSE objs
       IN  /\ add => nAdd < MaxAdd
           /\ nAdd' = IF add THEN nAdd + 1 ELSE nAdd
           /\ objs' = Collect(ob1, inner, Held \ {srv[c]})
           /\ clean' = (clean /\ ~add)
           /\ ev' = Ev("noticeSuccess", c, IF add THEN 1 ELSE 0)
    /\ cpc' = [cpc EXCEPT ![c] = "idle"]
    /\ srv' = [srv EXCEPT ![c] = 0]
    /\ tnow' = [tnow EXCEPT ![c] = 0]
    /\ begunAt' = [begunAt EXCEPT ![c] = 0]
    /\ UNCHANGED <<registeredServers, inner, LBStrategy, LBEstimator, now>>
    /\ UNCHANGED <<refVars, nRegister, nRefresh, nTicks, nGetOne>>
    /\ UNCHANGED <<lastReg, lastFail, insSeq, instSeq, lastInstall, tear>>
    /\ UNCHANGED <<plugVars, fetchVars, lockVars>>

\* The wall clock advances.
Tick(d) ==
    /\ nTicks < MaxTicks
    /\ nTicks' = nTicks + 1
    /\ now' = now + d
    /\ ev' = Ev("tick", "", 0)
    /\ UNCHANGED <<registeredServers, inner, objs, LBStrategy, LBEstimator>>
    /\ UNCHANGED <<refVars, cliVars, nRegister, nRefresh, nAdd, nGetOne>>
    /\ UNCHANGED <<lastReg, lastFail, insSeq, instSeq, lastInstall, tear, clean>>
    /\ UNCHANGED <<plugVars, fetchVars, lockVars>>

(***************************************************************************)
(* The plugin pipeline: pure parts.                                        *)
(***************************************************************************)
Actions == {"None", "Forward", "Drop", "Reject", "Synth"}

\* A proxy configuration: the settings InitPluginsGlobals reads.
Config(blockName, cache, nxLog, queryLog, blocked) ==
    [QueryMeta |-> FALSE, WhitelistNameFile |-> FALSE, BlockNameFile |-> blockName,
     PluginBlockIPv6 |-> FALSE, CloakFile |-> FALSE, Cache |-> cache,
     ForwardFile |-> FALSE, NXLogFile |-> nxLog, BlockIPFile |-> FALSE,
     QueryLogFile |-> queryLog, BlockedQueryResponse |-> blocked]

\* The proxy configurations InitPluginsGlobals is run with.
ProxyConfigs ==
    {Config(FALSE, FALSE, FALSE, FALSE, "hinfo"),
     Config(TRUE, FALSE, FALSE, TRUE, "refused"),
     Config(FALSE, TRUE, TRUE, TRUE, "hinfo"),
     Config(FALSE, TRUE, FALSE, FALSE, "refused")}

Opt(cond, plugin) == IF cond THEN <<plugin>> ELSE <<>>

\* InitPluginsGlobals, lines 89-115.
QueryPluginsOf(cfg) ==
    Opt(cfg.QueryMeta, "QueryMeta") \o Opt(cfg.WhitelistNameFile, "WhitelistName")
    \o <<"Firefox">> \o Opt(cfg.BlockNameFile, "BlockName")
    \o Opt(cfg.PluginBlockIPv6, "BlockIPv6") \o Opt(cfg.CloakFile, "Cloak")
    \o <<"GetSetPayloadSize">> \o Opt(cfg.Cache, "Cache")
    \o Opt(cfg.ForwardFile, "Forward")

\* InitPluginsGlobals, lines 117-126.
ResponsePluginsOf(cfg) ==
    Opt(cfg.NXLogFile, "NxLog") \o Opt(cfg.BlockIPFile, "BlockIP")
    \o Opt(cfg.Cache, "CacheResponse")

\* InitPluginsGlobals, lines 128-131.
LoggingPluginsOf(cfg) == Opt(cfg.QueryLogFile, "QueryLog")

\* parseBlockedQueryResponse, lines 193-201, for "refused" and "hinfo".
RefusedCodeOf(cfg) == cfg.BlockedQueryResponse = "refused"

\* PluginsGlobals after a whole InitPluginsGlobals, no reader inside.
GlobalsOf(cfg) ==
    [queryPlugins |-> QueryPluginsOf(cfg),
     responsePlugins |-> ResponsePluginsOf(cfg),
     loggingPlugins |-> LoggingPluginsOf(cfg),
     refusedCodeInResponses |-> RefusedCodeOf(cfg),
     readers |-> 0]

\* A DNS packet: whether it unpacks, and if so its questions, its rcode and
\* whether a plugin edited the message it packs; if not, whether it is long
\* enough and has the TC flag; canon: the bytes are those PackBuffer writes.
Pkt(valid, nq, rcode, tc, canon) ==
    [valid |-> valid, nq |-> nq, rcode |-> rcode, tc |-> tc, edited |-> FALSE,
     ttl |-> "orig", canon |-> canon]

NilPacket == [valid |-> FALSE, nq |-> -1, rcode |-> 0, tc |-> FALSE, edited |-> FALSE,
              ttl |-> "orig", canon |-> FALSE]

NilMsg == [nq |-> -1, rcode |-> 0, edited |-> FALSE, ttl |-> "orig"]

QueryPackets ==
    {Pkt(FALSE, 0, 0, FALSE, FALSE)}
    \cup {Pkt(TRUE, n, 0, FALSE, c) : n \in 0..2, c \in BOOLEAN}

ResponsePackets ==
    {Pkt(FALSE, 0, 0, t, FALSE) : t \in BOOLEAN}
    \cup {Pkt(TRUE, 1, r, FALSE, FALSE) : r \in {0, 2, 3, 5}}

\* msg.Unpack(packet) on a packet that unpacks.
Unpack(p) == [nq |-> p.nq, rcode |-> p.rcode, edited |-> p.edited, ttl |-> p.ttl]

\* msg.PackBuffer(packet) when it succeeds.
PackBuffer(m) ==
    [valid |-> TRUE, nq |-> m.nq, rcode |-> m.rcode, tc |-> FALSE,
     edited |-> m.edited, ttl |-> m.ttl, canon |-> TRUE]

\* ApplyResponsePlugins, lines 283-292 (dns.RcodeSuccess = 0,
\* dns.RcodeServerFailure = 2, dns.RcodeNameError = 3).
ReturnCodeOf(rcode) ==
    CASE rcode = 0 -> "Pass"
      [] rcode = 3 -> "NXDomain"
      [] rcode = 2 -> "ServerError"
      [] OTHER -> "ResponseError"

\* What one Eval call does: whether it returns an error, the action it leaves
\* in the PluginsState, whether it changes the message.
EvalOutcomes == [err : BOOLEAN, action : Actions, edit : BOOLEAN]

NoRet == [packet |-> NilPacket, err |-> "none"]

NoSynth == [by |-> "nil", stage |-> "", req |-> 0, refused |-> FALSE, of |-> NilMsg]

\* NewPluginsState, lines 214-230.
NewPluginsState ==
    [action |-> "Forward", synthResponse |-> NoSynth, questionMsg |-> NilMsg,
     returnCode |-> "Pass", serverName |-> ""]

Stages == {"query", "response", "logging"}

\* A range that goes on whatever action the plugin left.
GoesOnAlways(action) == TRUE

\* Lines 260 and 308: the range goes on to the next plugin.
GoesOn(action) == action = "Forward"

\* A stage that leaves the action as the failed plugin left it.
ActionOnErrorKept(action) == action

\* Lines 250 and 297: the action the stage leaves after a plugin's error.
ActionOnError(action) == "Drop"

\* Lines 251 and 298: the packet the stage returns after a plugin's error.
PacketOnError(pkt, m) == pkt

\* One turn of the range of ApplyQueryPlugins (lines 248-263) or of
\* ApplyResponsePlugins (lines 295-311).  o: what Eval does; synthOk:
\* RefusedResponseFromMessage succeeds; refused: refusedCodeInResponses as
\* read at this turn.  next: the stage returns ret, leaves the range, or
\* stays in it.
\* A variant of RefusedResponseFromMessage whose response is not stored.
RefusedResponseDiscarded(m, stage, req, refused) == NoSynth

\* Lines 254 and 258, 302 and 306: the refused response synthesized from
\* the stage's msg, and for the history the stage and the request.
RefusedResponseFromMessage(m, stage, req, refused) ==
    [by |-> "refused", stage |-> stage, req |-> req, refused |-> refused, of |-> m]

StageTurn(stage, ps, pkt, m, plugs, i, o, synthOk, refused, req) ==
    LET plugin == plugs[i]
        m1 == IF o.edit THEN [m EXCEPT !.edited = TRUE] ELSE m
        ps1 == [ps EXCEPT !.action = o.action,
                          !.synthResponse =
                              IF o.action = "Synth"
                              THEN [by |-> plugin, stage |-> stage, req |-> req,
                                    refused |-> FALSE, of |-> m1]
                              ELSE @]
        entry == [plugin |-> plugin, action |-> o.action, err |-> o.err]
        ps2 == IF ps1.action = "Reject"
               THEN [ps1 EXCEPT !.synthResponse =
                        RefusedResponseFromMessage(m1, stage, req, refused)]
               ELSE ps1
    IN  IF o.err
        THEN [ps |-> [ps1 EXCEPT !.action = ActionOnError(ps1.action)], msg |-> m1,
              entry |-> entry, next |-> "return",
              ret |-> [packet |-> PacketOnError(pkt, m1), err |-> plugin]]
        ELSE IF ps1.action = "Reject" /\ ~synthOk
        THEN [ps |-> ps1, msg |-> m1, entry |-> entry, next |-> "return",
              ret |-> [packet |-> NilPacket, err |-> "synth"]]
        ELSE [ps |-> ps2, msg |-> m1, entry |-> entry, ret |-> NoRet,
              next |-> IF GoesOn(ps2.action) /\ i < Len(plugs) THEN "range"
                                                              ELSE "pack"]

\* The end of a stage: lines 264-268 and 312-319.  clamp: ttl is not nil.
StagePack(stage, pkt, m, packOk, clamp) ==
    LET m2 == IF stage = "response" /\ clamp THEN [m EXCEPT !.ttl = "max"] ELSE m
    IN  [msg |-> m2,
         ret |-> IF packOk THEN [packet |-> PackBuffer(m2), err |-> "nil"]
                           ELSE [packet |-> pkt, err |-> "pack"]]

(***************************************************************************)
(* The plugin pipeline: the operations.                                    *)
(***************************************************************************)
\* After the first InitPluginsGlobals: no request yet.
InitPluginsWith(cfg) ==
    /\ pluginsGlobals = GlobalsOf(cfg)
    /\ initpc = 0
    /\ newPlugins = GlobalsOf(cfg)
    /\ pluginsState = NewPluginsState
    /\ ppc = [stage |-> "none", at |-> "done"]
    /\ packet = NilPacket
    /\ msg = NilMsg
    /\ plugins = [st \in Stages |-> <<>>]
    /\ pidx = 0
    /\ ret = [st \in Stages |-> NoRet]
    /\ evald = [st \in Stages |-> <<>>]
    /\ gen = [queryPlugins |-> 0, responsePlugins |-> 0, loggingPlugins |-> 0]
    /\ reads = {}
    /\ nRequest = 0
    /\ nReload = 0

DefaultConfig == Config(FALSE, FALSE, FALSE, FALSE, "hinfo")

At(stage, at) == [stage |-> stage, at |-> at]

reqVars == <<pluginsState, ppc, packet, msg, plugins, pidx, ret, evald, reads,
             nRequest>>

loadVars == <<pluginsGlobals, initpc, newPlugins, gen, nReload>>

otherVars == <<poolVars, refVars, cliVars, cntVars, histVars, fetchVars,
              lockVars>>

\* InitPluginsGlobals, lines 88-147: the new sequences are built and every
\* plugin's Init is run; ok: none of them fails.
InitPluginsGlobalsBuild(cfg, ok) ==
    /\ initpc = 0
    /\ nReload < MaxReload
    /\ nReload' = nReload + 1
    /\ IF ok
       THEN /\ newPlugins' = GlobalsOf(cfg)
            /\ initpc' = 1
       ELSE UNCHANGED <<newPlugins, initpc>>
    /\ UNCHANGED <<pluginsGlobals, gen, reqVars, otherVars>>

\* InitPluginsGlobals, lines 149-153: four stores, one at a time, the lock
\* not taken.
InitPluginsGlobalsStore ==
    /\ initpc \in 1..4
    /\ pluginsGlobals' =
         CASE initpc = 1 ->
                [pluginsGlobals EXCEPT !.queryPlugins = newPlugins.queryPlugins]
           [] initpc = 2 ->
                [pluginsGlobals EXCEPT !.responsePlugins = newPlugins.responsePlugins]
           [] initpc = 3 ->
                [pluginsGlobals EXCEPT !.loggingPlugins = newPlugins.loggingPlugins]
           [] initpc = 4 ->
                [pluginsGlobals EXCEPT
                    !.refusedCodeInResponses = newPlugins.refusedCodeInResponses]
    /\ gen' = CASE initpc = 1 -> [gen EXCEPT !.queryPlugins = nReload]
              [] initpc = 2 -> [gen EXCEPT !.responsePlugins = nReload]
              [] initpc = 3 -> [gen EXCEPT !.loggingPlugins = nReload]
              [] initpc = 4 -> gen
    /\ initpc' = (initpc + 1) % 5
    /\ UNCHANGED <<newPlugins, nReload, reqVars, otherVars>>

\* A request arrives: NewPluginsState.
NewRequest ==
    /\ ppc = At("none", "done")
    /\ nRequest < MaxRequest
    /\ nRequest' = nRequest + 1
    /\ pluginsState' = NewPluginsState
    /\ ppc' = At("query", "new")
    /\ packet' = NilPacket
    /\ msg' = NilMsg
    /\ plugins' = [st \in Stages |-> <<>>]
    /\ pidx' = 0
    /\ ret' = [st \in Stages |-> NoRet]
    /\ evald' = [st \in Stages |-> <<>>]
    /\ reads' = {}
    /\ UNCHANGED <<loadVars, otherVars>>

\* A stage returns r.
Return(stage, r) ==
    /\ ret' = [ret EXCEPT ![stage] = r]
    /\ ppc' = At(stage, "done")

\* ApplyQueryPlugins, lines 232-245.
ApplyQueryPluginsBegin(pkt) ==
    /\ ppc = At("query", "new")
    /\ packet' = pkt
    /\ IF Len(pluginsGlobals.queryPlugins) = 0 /\ Len(pluginsGlobals.loggingPlugins) = 0
       THEN /\ Return("query", [packet |-> pkt, err |-> "nil"])
            /\ UNCHANGED <<pluginsState, msg>>
       ELSE LET ps == [pluginsState EXCEPT !.serverName = "server",
                                           !.action = "Forward"]
            IN  IF ~pkt.valid
                THEN /\ Return("query", [packet |-> pkt, err |-> "unpack"])
                     /\ pluginsState' = ps
                     /\ UNCHANGED msg
                ELSE IF pkt.nq > 1
                THEN /\ Return("query", [packet |-> pkt, err |-> "questions"])
                     /\ pluginsState' = ps
                     /\ msg' = Unpack(pkt)
                ELSE /\ pluginsState' = [ps EXCEPT !.questionMsg = Unpack(pkt)]
                     /\ msg' = Unpack(pkt)
                     /\ ppc' = At("query", "range")
                     /\ UNCHANGED ret
    /\ reads' = IF ppc'.at = "done" THEN {}
                 ELSE {gen.queryPlugins} \cup
                      IF Len(pluginsGlobals.queryPlugins) = 0
                      THEN {gen.loggingPlugins} ELSE {}
    /\ UNCHANGED <<plugins, pidx, evald, nRequest, loadVars, otherVars>>

\* The sequence a stage ranges over.
PluginsOf(stage) ==
    CASE stage = "query" -> pluginsGlobals.queryPlugins
      [] stage = "response" -> pluginsGlobals.responsePlugins
      [] stage = "logging" -> pluginsGlobals.loggingPlugins

\* The InitPluginsGlobals call that stored the sequence a stage ranges over.
GenOf(stage) ==
    CASE stage = "query" -> gen.queryPlugins
      [] stage = "response" -> gen.responsePlugins
      [] stage = "logging" -> gen.loggingPlugins

\* RLock and the range expression: lines 246-248, 293-295, 331-333.
StageRange(stage) ==
    /\ ppc = At(stage, "range")
    /\ pluginsGlobals' = [pluginsGlobals EXCEPT !.readers = @ + 1]
    /\ plugins' = [plugins EXCEPT ![stage] = PluginsOf(stage)]
    /\ pidx' = 1
    /\ ppc' = At(stage, IF PluginsOf(stage) = <<>> THEN "pack" ELSE "eval")
    /\ reads' = reads \cup {GenOf(stage)}
    /\ UNCHANGED <<pluginsState, packet, msg, ret, evald, nRequest>>
    /\ UNCHANGED <<initpc, newPlugins, gen, nReload, otherVars>>

\* One turn of the range of the query or the response stage.
StageEval(stage, o, synthOk) ==
    /\ stage \in {"query", "response"}
    /\ ppc = At(stage, "eval")
    /\ LET t == StageTurn(stage, pluginsState, packet, msg, plugins[stage], pidx,
                          o, synthOk, pluginsGlobals.refusedCodeInResponses,
                          nRequest)
       IN  /\ pluginsState' = t.ps
           /\ msg' = t.msg
           /\ evald' = [evald EXCEPT ![stage] = Append(@, t.entry)]
           /\ IF t.next = "return"
              THEN /\ Return(stage, t.ret)
                   /\ pluginsGlobals' = [pluginsGlobals EXCEPT !.readers = @ - 1]
                   /\ UNCHANGED pidx
              ELSE /\ ppc' = At(stage, IF t.next = "pack" THEN "pack" ELSE "eval")
                   /\ pidx' = IF t.next = "pack" THEN pidx ELSE pidx + 1
                   /\ UNCHANGED <<ret, pluginsGlobals>>
    /\ reads' = {}
    /\ UNCHANGED <<packet, plugins, nRequest>>
    /\ UNCHANGED <<initpc, newPlugins, gen, nReload, otherVars>>

\* The end of the query or the response stage, and the deferred RUnlock.
StageEnd(stage, packOk, clamp) ==
    /\ stage \in {"query", "response"}
    /\ ppc = At(stage, "pack")
    /\ LET e == StagePack(stage, packet, msg, packOk, clamp)
       IN  /\ msg' = e.msg
           /\ Return(stage, e.ret)
    /\ pluginsGlobals' = [pluginsGlobals EXCEPT !.readers = @ - 1]
    /\ reads' = {}
    /\ UNCHANGED <<pluginsState, packet, plugins, pidx, evald, nRequest>>
    /\ UNCHANGED <<initpc, newPlugins, gen, nReload, otherVars>>

ApplyQueryPluginsRange == StageRange("query")

ApplyQueryPluginsEval(o, synthOk) == StageEval("query", o, synthOk)

ApplyQueryPluginsEnd(packOk) == StageEnd("query", packOk, FALSE)

\* The caller of the stages: the query went to a server, and its response
\* goes to the response stage, when the query stage returned no error and
\* left the action Forward.
Forwarded ==
    /\ ppc = At("query", "done")
    /\ ret["query"].err = "nil"
    /\ pluginsState.action = "Forward"

\* ApplyResponsePlugins, line 272, left conjunct: the response stage is
\* entered after a query stage that returned no error and left the action
\* Forward, with the packet the server sent.
ApplyResponsePluginsBegin(pkt) ==
    /\ Forwarded
    /\ packet' = pkt
    /\ ppc' = At("response",
                 IF Len(pluginsGlobals.responsePlugins) = 0 THEN "len2" ELSE "parse")
    /\ reads' = {gen.responsePlugins}
    /\ UNCHANGED <<pluginsState, msg, plugins, pidx, ret, evald, nRequest>>
    /\ UNCHANGED <<loadVars, otherVars>>

\* ApplyResponsePlugins, lines 272-274, right conjunct.
ApplyResponsePluginsLen ==
    /\ ppc = At("response", "len2")
    /\ IF Len(pluginsGlobals.loggingPlugins) = 0
       THEN Return("response", [packet |-> packet, err |-> "nil"])
       ELSE /\ ppc' = At("response", "parse")
            /\ UNCHANGED ret
    /\ reads' = IF ppc'.at = "done" THEN {} ELSE reads \cup {gen.loggingPlugins}
    /\ UNCHANGED <<pluginsState, packet, msg, plugins, pidx, evald, nRequest>>
    /\ UNCHANGED <<loadVars, otherVars>>

\* ApplyResponsePlugins, lines 275-292.
ApplyResponsePluginsParse ==
    /\ ppc = At("response", "parse")
    /\ IF ~packet.valid
       THEN /\ Return("response",
                      [packet |-> packet,
                       err |-> IF packet.tc THEN "nil" ELSE "unpack"])
            /\ pluginsState' = [pluginsState EXCEPT !.action = "Forward"]
            /\ UNCHANGED msg
       ELSE /\ pluginsState' = [pluginsState EXCEPT
                                   !.action = "Forward",
                                   !.returnCode = ReturnCodeOf(packet.rcode)]
            /\ msg' = Unpack(packet)
            /\ ppc' = At("response", "range")
            /\ UNCHANGED ret
    /\ reads' = IF ppc'.at = "done" THEN {} ELSE reads
    /\ UNCHANGED <<packet, plugins, pidx, evald, nRequest>>
    /\ UNCHANGED <<loadVars, otherVars>>

ApplyResponsePluginsRange == StageRange("response")

ApplyResponsePluginsEval(o, synthOk) == StageEval("response", o, synthOk)

ApplyResponsePluginsEnd(packOk, clamp) == StageEnd("response", packOk, clamp)

\* A variant of BadQuestion that lets a request without parsed question pass.
BadQuestionNilPasses(questionMsg) == questionMsg.nq > 1

\* ApplyLoggingPlugins, line 327: the test on the request's question.
BadQuestion(questionMsg) == questionMsg = NilMsg \/ questionMsg.nq > 1

\* ApplyLoggingPlugins, lines 322-330: the logging stage is entered when the
\* query stage or the response stage has returned.
ApplyLoggingPluginsBegin ==
    /\ ppc \in {At("query", "done"), At("response", "done")}
    /\ IF Len(pluginsGlobals.loggingPlugins) = 0
       THEN Return("logging", [packet |-> NilPacket, err |-> "nil"])
       ELSE IF BadQuestion(pluginsState.questionMsg)
       THEN Return("logging", [packet |-> NilPacket, err |-> "questions"])
       ELSE /\ ppc' = At("logging", "range")
            /\ UNCHANGED ret
    /\ reads' = IF ppc'.at = "done" THEN {} ELSE {gen.loggingPlugins}
    /\ UNCHANGED <<pluginsState, packet, msg, plugins, pidx, evald, nRequest>>
    /\ UNCHANGED <<loadVars, otherVars>>

ApplyLoggingPluginsRange == StageRange("logging")

\* ApplyLoggingPlugins, lines 333-338: one turn of the range, or its end.
ApplyLoggingPluginsEval(err) ==
    /\ ppc \in {At("logging", "eval"), At("logging", "pack")}
    /\ IF ppc.at = "pack"
       THEN /\ Return("logging", [packet |-> NilPacket, err |-> "nil"])
            /\ pluginsGlobals' = [pluginsGlobals EXCEPT !.readers = @ - 1]
            /\ UNCHANGED <<evald, pidx>>
       ELSE LET plugin == plugins["logging"][pidx]
            IN  /\ evald' = [evald EXCEPT !["logging"] =
                                Append(@, [plugin |-> plugin, action |-> "None",
                                           err |-> err])]
                /\ IF err
                   THEN /\ Return("logging", [packet |-> NilPacket, err |-> plugin])
                        /\ pluginsGlobals' =
                             [pluginsGlobals EXCEPT !.readers = @ - 1]
                        /\ UNCHANGED pidx
                   ELSE /\ ppc' = At("logging",
                                     IF pidx < Len(plugins["logging"]) THEN "eval"
                                                                       ELSE "pack")
                        /\ pidx' = pidx + 1
                        /\ UNCHANGED <<ret, pluginsGlobals>>
    /\ reads' = {}
    /\ UNCHANGED <<pluginsState, packet, msg, plugins, nRequest>>
    /\ UNCHANGED <<initpc, newPlugins, gen, nReload, otherVars>>

\* The request is over.
RequestEnd ==
    /\ ppc = At("logging", "done")
    /\ ppc' = At("none", "done")
    /\ UNCHANGED <<pluginsState, packet, msg, plugins, pidx, ret, evald, reads,
                   nRequest>>
    /\ UNCHANGED <<loadVars, otherVars>>

(***************************************************************************)
(* route: the relay of a DNSCrypt server.                                  *)
(***************************************************************************)
\* Addresses as strings: of a relay given as host:port or in a stamp string,
\* of the relays of the relay registry (one of them does not resolve), of the
\* servers of the server registry.  NoAddr: nil.
NoAddr == "nil"

Unresolvable == "nowhere:443"

RelayAddrs == {"10.0.0.1:443", Unresolvable}

ServerAddrs == {"10.0.0.2:443"}

\* net.ResolveUDPAddr and net.ResolveTCPAddr on the address of a stamp.
Resolves(addr) == addr # Unresolvable /\ addr # NoAddr

Stamp(proto, addr) == [Proto |-> proto, ServerAddrStr |-> addr]

NilStamp == Stamp("nil", NoAddr)

\* A relay of a route: the empty string, a stamp string, host:port, or a name.
\* str is the string where it is a stamp or host:port.
RelayRef(kind, str, name) == [kind |-> kind, str |-> str, name |-> name]

EmptyRef == RelayRef("empty", "", 0)

RelayRefs ==
    {EmptyRef, RelayRef("stamp", "sdns://gQ", 0), RelayRef("stamp", "sdns://Ag", 0),
     RelayRef("hostport", "10.0.0.4:443", 0), RelayRef("name", "", 1)}

\* stamps.NewServerStampFromString on the two stamp strings: the stamp of a
\* relay and the stamp of a DoH server.
NewServerStampFromString(str) ==
    CASE str = "sdns://gQ" -> Stamp("DNSCryptRelay", "10.0.0.3:443")
      [] str = "sdns://Ag" -> Stamp("DoH", "10.0.0.5:443")

NilRoutes == [nil |-> TRUE, map |-> <<>>]

\* proxy.Routes: nil, or a map from some of the name 1 and "*" to relay lists.
RouteMaps ==
    {NilRoutes} \cup
    {[nil |-> FALSE, map |-> m] :
        m \in UNION {[D -> SeqsUpTo(RelayRefs, MaxRelays)] : D \in SUBSET {1, Star}}}

RelayEntries == [Name : Names, Stamp : {Stamp("DNSCryptRelay", a) : a \in RelayAddrs}]

ServerEntries ==
    [Name : Names, Stamp : {Stamp(pr, a) : pr \in {"DNSCrypt", "DoH"}, a \in ServerAddrs}]

\* A variant of FirstNamed that never finds the name.
RECURSIVE FirstNamedNowhere(_, _, _)
FirstNamedNowhere(registry, name, i) == NilStamp

\* Lines 256-261 and 262-267: the stamp of the first entry of a registry that
\* has the name, from index i; NilStamp when there is none.
RECURSIVE FirstNamed(_, _, _)
FirstNamed(registry, name, i) ==
    IF i > Len(registry) THEN NilStamp
    ELSE IF registry[i].Name = name THEN registry[i].Stamp
    ELSE FirstNamed(registry, name, i + 1)

\* Lines 246-268: the stamp of the relay.  The range over RegisteredServers
\* runs whatever the range over RegisteredRelays found, and assigns the same
\* relayCandidateStamp.
RelayCandidateStamp(p, relayName) ==
    CASE relayName.kind = "stamp" -> NewServerStampFromString(relayName.str)
      [] relayName.kind = "hostport" -> Stamp("DNSCryptRelay", relayName.str)
      [] relayName.kind = "name" ->
            LET fromRelays == FirstNamed(p.RegisteredRelays, relayName.name, 1)
                fromServers == FirstNamed(p.RegisteredServers, relayName.name, 1)
            IN  IF fromServers # NilStamp THEN fromServers ELSE fromRelays

RouteResult(addr, err, relayName) ==
    [done |-> TRUE, addr |-> addr, err |-> err, relayName |-> relayName]

\* Lines 269-284: what route returns for the stamp it settled on.
RouteVia(stamp, relayName) ==
    IF stamp = NilStamp THEN RouteResult(NoAddr, "Undefined relay", relayName)
    ELSE IF stamp.Proto \in {"DNSCrypt", "DNSCryptRelay"}
    THEN IF Resolves(stamp.ServerAddrStr)
         THEN RouteResult(stamp.ServerAddrStr, "nil", relayName)
         ELSE RouteResult(NoAddr, "resolve", relayName)
    ELSE RouteResult(NoAddr, "Invalid relay", relayName)

\* route, lines 228-285, for the candidate rand.Intn drew (the Go index plus
\* one).
RouteOf(p, name, candidate) ==
    IF p.Routes.nil THEN RouteResult(NoAddr, "nil", EmptyRef)
    ELSE LET key == IF name \in DOMAIN p.Routes.map THEN name ELSE Star
         IN  IF key \notin DOMAIN p.Routes.map
             THEN RouteResult(NoAddr, "nil", EmptyRef)
             ELSE LET relayNames == p.Routes.map[key]
                      relayName == IF Len(relayNames) > 0 THEN relayNames[candidate]
                                                         ELSE EmptyRef
                  IN  IF relayName.kind = "empty"
                      THEN RouteResult(NoAddr, "empty relay list", relayName)
                      ELSE RouteVia(RelayCandidateStamp(p, relayName), relayName)

\* The list rand.Intn draws from: its length, or 1 when there is no draw.
CandidatesOf(p, name) ==
    IF p.Routes.nil THEN 1
    ELSE LET key == IF name \in DOMAIN p.Routes.map THEN name ELSE Star
         IN  IF key \notin DOMAIN p.Routes.map THEN 1
             ELSE Max(1, Len(p.Routes.map[key]))

(***************************************************************************)
(* fetchDoHServerInfo: the probe of a DoH server.                          *)
(***************************************************************************)
\* The TBS sections of the certificates a server may present.
TBSCerts == {1, 2}

\* sha256.Sum256 on those sections: two sections, two digests.
Sum256(tbs) == tbs + 1

Digests == {Sum256(tbs) : tbs \in TBSCerts}

\* The hashes of a stamp: their length and, where the length is that of a
\* digest, the digest they spell.
StampHashes == [len : {Sha256Size - 1, Sha256Size}, bytes : Digests]

\* What the network and the server answer to the probe: the POST, the GET
\* that follows a failed POST, the measured query, its TLS state, the
\* certificates, the reading of the body and the body.
DoHResponses ==
    [postOk : BOOLEAN, getOk : BOOLEAN, measureOk : BOOLEAN,
     tls : {"nil", "incomplete", "complete"},
     certs : SeqsUpTo(TBSCerts, MaxCerts),
     readOk : BOOLEAN,
     size : {"below", "within", "above"}, idOk : BOOLEAN, flagsOk : BOOLEAN]

NoStamp == [Hashes |-> <<>>]

NoResponse ==
    [postOk |-> FALSE, getOk |-> FALSE, measureOk |-> FALSE, tls |-> "nil",
     certs |-> <<>>, readOk |-> FALSE, size |-> "below", idOk |-> FALSE,
     flagsOk |-> FALSE]

NoFetch == [done |-> FALSE, ok |-> FALSE, err |-> "", useGet |-> FALSE]

NoProxy == [Routes |-> NilRoutes, RegisteredRelays |-> <<>>, RegisteredServers |-> <<>>]

NoRoute == [done |-> FALSE, addr |-> NoAddr, err |-> "", relayName |-> EmptyRef]

\* No probe and no route resolution in this run.
InitFetch ==
    /\ dohStamp = NoStamp
    /\ dohResp = NoResponse
    /\ fetched = NoFetch
    /\ proxy = NoProxy
    /\ routeName = 0
    /\ routed = NoRoute

\* A variant of HashMatches that does not look at the length of the hash.
HashMatchesAnyLength(hash, h) == hash.bytes = h

\* Lines 376-381: a hash of the stamp is compared when it has the length of
\* a digest, and matches when it equals the digest.
HashMatches(hash, h) == hash.len = Sha256Size /\ hash.bytes = h

\* Lines 375-383: the range over stamp.Hashes, from index j.
RECURSIVE HashFound(_, _, _)
HashFound(h, hashes, j) ==
    IF j > Len(hashes) THEN FALSE
    ELSE IF HashMatches(hashes[j], h) THEN TRUE
    ELSE HashFound(h, hashes, j + 1)

\* Lines 368-387: the range over tls.PeerCertificates, from index i.
RECURSIVE CertFound(_, _, _)
CertFound(certs, hashes, i) ==
    IF i > Len(certs) THEN FALSE
    ELSE IF HashFound(Sum256(certs[i]), hashes, 1) THEN TRUE
    ELSE CertFound(certs, hashes, i + 1)

FetchError(err, useGet) == [done |-> TRUE, ok |-> FALSE, err |-> err, useGet |-> useGet]

\* fetchDoHServerInfo, lines 328-414.
FetchDoH(stamp, resp) ==
    LET useGet == ~resp.postOk
    IN  IF ~resp.postOk /\ ~resp.getOk THEN FetchError("query", useGet)
        ELSE IF ~resp.measureOk THEN FetchError("query", useGet)
        ELSE IF resp.tls # "complete" THEN FetchError("TLS handshake failed", useGet)
        ELSE IF ~CertFound(resp.certs, stamp.Hashes, 1) /\ Len(stamp.Hashes) > 0
        THEN FetchError("Certificate hash not found", useGet)
        ELSE IF ~resp.readOk THEN FetchError("read", useGet)
        ELSE IF resp.size # "within" \/ ~resp.idOk \/ ~resp.flagsOk
        THEN FetchError("Webserver returned an unexpected response", useGet)
        ELSE [done |-> TRUE, ok |-> TRUE, err |-> "nil", useGet |-> useGet]

Route(candidate) ==
    /\ ~routed.done
    /\ candidate \in 1..CandidatesOf(proxy, routeName)
    /\ routed' = RouteOf(proxy, routeName, candidate)
    /\ UNCHANGED <<dohStamp, dohResp, fetched, proxy, routeName>>
    /\ UNCHANGED <<poolVars, refVars, cliVars, cntVars, histVars, plugVars>>
    /\ UNCHANGED lockVars

FetchDoHServerInfo ==
    /\ ~fetched.done
    /\ fetched' = FetchDoH(dohStamp, dohResp)
    /\ UNCHANGED <<dohStamp, dohResp, proxy, routeName, routed>>
    /\ UNCHANGED <<poolVars, refVars, cliVars, cntVars, histVars, plugVars>>
    /\ UNCHANGED lockVars

(***************************************************************************)
(* The pool with one refresh goroutine, its clients and the clock.         *)
(***************************************************************************)
Init ==
    /\ InitPool
    /\ LBStrategy = "P2"
    /\ LBEstimator = TRUE
    /\ InitPluginsWith(DefaultConfig)
    /\ InitFetch

ClientNext ==
    \/ \E c \in Clients : GetOneNone(c)
    \/ \E c \in Clients : GetOne(c)
    \/ \E c \in Clients : NoticeBegin(c)
    \/ \E c \in Clients : NoticeFailure(c)
    \/ \E c \in Clients : NoticeSuccessNow(c)
    \/ \E c \in Clients : NoticeSuccess(c)

RefreshNext(procs) ==
    \/ \E p \in procs : RefreshStart(p)
    \/ \E p \in procs : RefreshServerBegin(p)
    \/ \E p \in procs, r \in Rtts : RefreshServerOk(p, r)
    \/ \E p \in procs : RefreshServerFail(p)
    \/ \E p \in procs : RefreshSort(p)

Next ==
    \/ \E n \in Names, s \in Stamps : RegisterServer(n, s)
    \/ RefreshNext({"r1"})
    \/ ClientNext
    \/ \E d \in Delays : Tick(d)

Spec == Init /\ [][Next]_vars

(***************************************************************************)
(* The pool with two refresh goroutines running at once.                   *)
(***************************************************************************)
NextConc ==
    \/ \E n \in Names, s \in Stamps : RegisterServer(n, s)
    \/ RefreshNext(RefreshProcs)
    \/ ClientNext

SpecConc == Init /\ [][NextConc]_vars

(***************************************************************************)
(* Properties of the registry and the pool.                                *)
(***************************************************************************)
NoRefreshRunning == \A p \in RefreshProcs : rpc[p] = "idle"

SortedByRtt ==
    \A i \in 1..(Len(inner) - 1) : objs[inner[i]].rtt <= objs[inner[i + 1]].rtt

SortedByInitialRtt(in, ob) ==
    \A i \in 1..(Len(in) - 1) : ob[in[i]].initialRtt <= ob[in[i + 1]].initialRtt

\* The first position of x in the sequence s.
Pos(s, x) == CHOOSE k \in DOMAIN s : s[k] = x /\ \A j \in 1..(k - 1) : s[j] # x

\* Pool entries of equal initialRtt stand in the order their names have in s.
TiesFollow(s) ==
    \A i \in DOMAIN inner : \A j \in DOMAIN inner :
        (i < j /\ objs[inner[i]].initialRtt = objs[inner[j]].initialRtt)
            => Pos(s, objs[inner[i]].Name) < Pos(s, objs[inner[j]].Name)

\* C1 as stated: whenever no refresh is running, the registry holds exactly
\* one entry for every name that was registered, and that entry carries the
\* stamp of the most recent registerServer call for the name.
C1_RegistryOnePerName ==
    NoRefreshRunning =>
        \A n \in Names :
            lastReg[n] # 0 =>
                \E i \in DOMAIN registeredServers :
                    /\ registeredServers[i] = [Name |-> n, Stamp |-> lastReg[n]]
                    /\ \A j \in DOMAIN registeredServers :
                           j # i => registeredServers[j].Name # n

\* C2 as stated: when a refresh returns, no getOne that ran during it has
\* seen a pool that is neither the pool before the refresh nor the pool after
\* it (here: one whose length is neither the length before nor the length
\* after).
C2_NoTornObservation == ev.op = "sort" => ~ev.torn

\* C2, amended: getOne may run between two per-server steps of a running
\* refresh and before its sort, but what it then finds is the result of whole
\* per-server steps: every entry of the pool is the ServerInfo most recently
\* installed under its name, and no name has two entries.
C2_ObservesWholeSteps ==
    (ev.op = "getOne" /\ ev.arg # 0) =>
        \A i \in DOMAIN inner :
            /\ objs[inner[i]] # Dead
            /\ inner[i] = lastInstall[objs[inner[i]].Name]
            /\ \A j \in DOMAIN inner : j # i => objs[inner[j]].Name # objs[inner[i]].Name

\* getOne has just run while a refresh was between two of its steps, and found
\* the pool changed since that refresh started.
C2_Witness ==
    /\ ev.op = "getOne"
    /\ ev.arg # 0
    /\ rpc["r1"] # "idle"
    /\ tear["r1"].seen = Len(inner)
    /\ ridx["r1"] <= Len(snap["r1"])

\* C3: in every state, also with two refreshes of the same name running at
\* once, no two entries of the pool have the same name, and every name in the
\* pool is the name of an entry of the registry.
C3_PoolNamesUniqueAndRegistered ==
    \A i \in DOMAIN inner :
        /\ \A j \in DOMAIN inner : j # i => objs[inner[j]].Name # objs[inner[i]].Name
        /\ \E k \in DOMAIN registeredServers :
               registeredServers[k].Name = objs[inner[i]].Name

\* A refreshServer found under Lock, in a pool another refresh had meanwhile
\* extended, the name it had seen absent under RLock, and replaced the entry.
C3_Witness ==
    /\ ev.op = "install"
    /\ ev.arg = 0
    /\ isNew[ev.who]
    /\ \A p \in RefreshProcs : rpc[p] # "idle"

\* C4 as stated: in every state, a non-empty pool is ordered by ascending
\* rtt.Value().
C4_AlwaysSortedByRtt == inner # <<>> => SortedByRtt

\* C4, amended: the pool is ordered by ascending rtt.Value() from the return
\* of a refresh that found every entry's EWMA still at its initialRtt, until
\* the next rtt.Add or the next installation of a ServerInfo.
C4_SortedWhileFresh == clean => SortedByRtt

\* getOne has run its estimator on a pool of two servers of different
\* latency that a refresh had sorted.
C4_Witness ==
    /\ clean
    /\ ev.op = "getOne"
    /\ Len(inner) = 2
    /\ objs[inner[1]].rtt < objs[inner[2]].rtt

\* C5 as stated: when refresh returns, the pool is sorted by ascending
\* initialRtt and entries of equal initialRtt stand in the order in which they
\* were inserted (appended to the pool, or else installed in it).
C5_TiesInInsertionOrder ==
    ev.op = "sort" =>
        /\ SortedByInitialRtt(inner, objs)
        /\ TiesFollow(insSeq) \/ TiesFollow(instSeq)

\* C5, amended: the sort that ends a refresh leaves the same entries, sorted
\* by ascending initialRtt, and entries of equal initialRtt keep the relative
\* order they had in the pool just before the sort.
C5_RefreshSortsStably ==
    [][\A p \in RefreshProcs :
          (rpc[p] # "idle" /\ rpc'[p] = "idle") =>
              /\ Len(inner') = Len(inner)
              /\ Range(inner') = Range(inner)
              /\ SortedByInitialRtt(inner', objs')
              /\ \A i \in DOMAIN inner' : \A j \in DOMAIN inner' :
                    (i < j /\ objs'[inner'[i]].initialRtt = objs'[inner'[j]].initialRtt)
                        => Pos(inner, inner'[i]) < Pos(inner, inner'[j])]_vars

\* A refresh that followed a getOne has returned, leaving two servers of equal
\* initialRtt in the reverse of the order in which they were appended.
C5_Witness ==
    /\ ev.op = "sort"
    /\ nGetOne > 0
    /\ Len(inner) = 2
    /\ objs[inner[1]].initialRtt = objs[inner[2]].initialRtt
    /\ Len(insSeq) = 2
    /\ objs[inner[1]].Name = insSeq[2]

\* C7: a refreshServer whose fetchServerInfo fails changes neither the pool,
\* nor any ServerInfo (its EWMA included), nor the registry: not when it scans
\* the pool under RLock, not when it returns the error.
C7_FailedFetchChangesNothing ==
    [][\A p \in RefreshProcs :
          \/ rpc[p] = "loop" /\ rpc'[p] = "fetch"
          \/ rpc[p] = "fetch" /\ rpc'[p] = "loop" /\ rerr'[p] # 0
          => UNCHANGED <<inner, objs, registeredServers>>]_vars

\* The probe of a name has just failed while the pool holds an entry of that
\* name whose EWMA has moved away from its initialRtt.
C7_Witness ==
    /\ ev.op = "fetchFail"
    /\ \E i \in DOMAIN inner :
          /\ objs[inner[i]].Name = ev.arg
          /\ objs[inner[i]].rtt # objs[inner[i]].initialRtt

\* C8 as stated: when at least one per-server attempt of a refresh failed,
\* the error refresh returns is that of the most recent failed attempt.
C8_ErrorIsSticky == ev.op = "sort" => (ev.fail # 0 => ev.err = ev.fail)

(***************************************************************************)
(* getOne and the notices on pools of every size up to MaxPool, under      *)
(* every strategy, with and without the estimator.                         *)
(***************************************************************************)
\* A pool of n servers as a refresh leaves it, sorted by initialRtt: the first
\* fast of them measured at 10 ms, the others at 40 ms; the EWMA of server
\* slow, if any, has since drifted to 160 ms.
PoolOf(n, fast, slow) ==
    [i \in 1..n |->
        [Name |-> i,
         initialRtt |-> IF i <= fast THEN 10 ELSE 40,
         rtt |-> IF i = slow THEN 160 ELSE IF i <= fast THEN 10 ELSE 40,
         lastActionTS |-> ZeroTS]]

InitLB ==
    /\ \E n \in 0..MaxPool : \E fast \in 0..n, slow \in 0..n :
          /\ objs = PoolOf(n, fast, slow)
          /\ inner = [i \in 1..n |-> i]
          /\ registeredServers = [i \in 1..n |-> [Name |-> i, Stamp |-> 1]]
          /\ lastReg = [i \in 1..n |-> 1]
          /\ insSeq = [i \in 1..n |-> i]
          /\ instSeq = [i \in 1..n |-> i]
          /\ lastInstall = [i \in 1..n |-> i]
    /\ LBStrategy \in Strategies
    /\ LBEstimator \in BOOLEAN
    /\ InitLocals
    /\ InitPluginsWith(DefaultConfig)
    /\ InitFetch

NextLB ==
    \/ ClientNext
    \/ \E d \in Delays : Tick(d)

SpecLB == InitLB /\ [][NextLB]_vars

\* C6: getOne returns nil exactly when the pool is empty; otherwise it
\* returns the entry the pool holds, when getOne returns, at a Go index that is
\* 0 for First, 0 or 1 for P2 (and for the default), below
\* max(min(n,2), n/2) for PH, below n for Random, n being the pool's size,
\* with the estimator on or off.
C6_GetOneWithinStrategyRange ==
    \A c \in Clients :
        (ev.op = "getOne" /\ ev.who = c) =>
            /\ srv[c] = 0 <=> inner = <<>>
            /\ inner # <<>> =>
                 LET n == Len(inner)
                     half == n \div 2
                     few == IF n < 2 THEN n ELSE 2
                 IN  \E i \in 0..(n - 1) :
                        /\ srv[c] = inner[i + 1]
                        /\ CASE LBStrategy = "First" -> i = 0
                             [] LBStrategy = "PH" ->
                                  i < (IF few > half THEN few ELSE half)
                             [] LBStrategy = "Random" -> i < n
                             [] OTHER -> i \in {0, 1}

\* getOne, under PH with the estimator on, has returned the server at Go
\* index 2 of a pool of six.
C6_Witness ==
    /\ ev.op = "getOne"
    /\ LBStrategy = "PH"
    /\ LBEstimator
    /\ Len(inner) = 6
    /\ srv["c1"] = inner[3]

(***************************************************************************)
(* The plugin pipeline: requests, and InitPluginsGlobals run again.        *)
(***************************************************************************)
InitPlugins ==
    /\ InitPool
    /\ LBStrategy = "P2"
    /\ LBEstimator = TRUE
    /\ \E cfg \in ProxyConfigs : InitPluginsWith(cfg)
    /\ InitFetch

NextPlugins ==
    \/ \E cfg \in ProxyConfigs, ok \in BOOLEAN : InitPluginsGlobalsBuild(cfg, ok)
    \/ InitPluginsGlobalsStore
    \/ NewRequest
    \/ \E pkt \in QueryPackets : ApplyQueryPluginsBegin(pkt)
    \/ ApplyQueryPluginsRange
    \/ \E o \in EvalOutcomes, synthOk \in BOOLEAN : ApplyQueryPluginsEval(o, synthOk)
    \/ \E packOk \in BOOLEAN : ApplyQueryPluginsEnd(packOk)
    \/ \E pkt \in ResponsePackets : ApplyResponsePluginsBegin(pkt)
    \/ ApplyResponsePluginsLen
    \/ ApplyResponsePluginsParse
    \/ ApplyResponsePluginsRange
    \/ \E o \in EvalOutcomes, synthOk \in BOOLEAN : ApplyResponsePluginsEval(o, synthOk)
    \/ \E packOk \in BOOLEAN, clamp \in BOOLEAN : ApplyResponsePluginsEnd(packOk, clamp)
    \/ ApplyLoggingPluginsBegin
    \/ ApplyLoggingPluginsRange
    \/ \E err \in BOOLEAN : ApplyLoggingPluginsEval(err)
    \/ RequestEnd

SpecPlugins == InitPlugins /\ [][NextPlugins]_vars

(***************************************************************************)
(* Properties of the plugin pipeline.                                      *)
(***************************************************************************)
EvalStages == {"query", "response"}

\* The sequences InitPluginsGlobals can configure for a stage.
Configured(stage) ==
    CASE stage = "query" -> {QueryPluginsOf(cfg) : cfg \in ProxyConfigs}
      [] stage = "response" -> {ResponsePluginsOf(cfg) : cfg \in ProxyConfigs}

\* C9: within one run of the query stage or of the response stage the
\* plugins evaluated are, in order and from the first, those of the configured
\* sequence the stage ranges over, and every plugin evaluated before the last
\* one returned no error and left the action Forward: once a plugin leaves
\* another action, no later plugin of the stage is evaluated.
C9_InOrderUntilNotForward ==
    \A st \in EvalStages :
        /\ evald[st] # <<>> => plugins[st] \in Configured(st)
        /\ Len(evald[st]) <= Len(plugins[st])
        /\ \A k \in DOMAIN evald[st] :
              /\ evald[st][k].plugin = plugins[st][k]
              /\ k < Len(evald[st]) =>
                    evald[st][k].action = "Forward" /\ ~evald[st][k].err

\* The query stage has returned after its second plugin, of three, left the
\* action Reject without an error.
C9_Witness ==
    /\ ppc = At("query", "done")
    /\ Len(plugins["query"]) = 3
    /\ Len(evald["query"]) = 2
    /\ evald["query"][2].action = "Reject"
    /\ ~evald["query"][2].err
    /\ ret["query"].err = "nil"

\* C10: in the query stage and in the response stage, a plugin whose Eval
\* returns an error is the last one evaluated; the stage has then returned that
\* error with the packet it was given, and the action is Drop when it returns.
C10_EvalErrorDropsAndReturnsInput ==
    \A st \in EvalStages :
        \A k \in DOMAIN evald[st] :
            evald[st][k].err =>
                /\ k = Len(evald[st])
                /\ ret[st] = [packet |-> packet, err |-> evald[st][k].plugin]
                /\ ppc = At(st, "done") => pluginsState.action = "Drop"
                /\ ppc.stage = st => ppc.at = "done"

\* The response stage has returned the error of its second plugin, which had
\* changed the message and left the action Forward.
C10_Witness ==
    /\ ppc = At("response", "done")
    /\ Len(evald["response"]) = 2
    /\ evald["response"][2].err
    /\ evald["response"][2].action = "Forward"
    /\ msg.edited
    /\ ret["response"].err = "CacheResponse"

(***************************************************************************)
(* C11: a stage that runs while InitPluginsGlobals reloads.                *)
(***************************************************************************)
\* C11: every read of the module sequences by one invocation of the query or
\* the response stage, the emptiness test of lines 233 and 272 and the range
\* of lines 248 and 295, sees sequences stored by one and the same
\* InitPluginsGlobals call, never a mix of two.
C11_StageReadsOneGeneration ==
    ppc.stage \in EvalStages => Cardinality(reads) <= 1

(***************************************************************************)
(* C12: the logging stage after a query the query stage could not parse.   *)
(***************************************************************************)
\* The logging stage is entered with a non-empty logging sequence after the
\* query stage returned the error of Unpack.
LoggingAfterParseError ==
    /\ ppc = At("query", "done")
    /\ ret["query"].err = "unpack"
    /\ ppc'.stage = "logging"
    /\ Len(pluginsGlobals.loggingPlugins) > 0

\* C12 as stated: after the query stage returned a parse error, the logging
\* stage that is invoked with a non-empty logging sequence goes on to
\* evaluate the logging modules.
C12_LoggingEvaluatesAfterParseError ==
    [][LoggingAfterParseError => ppc' = At("logging", "range")]_vars

\* C12 as the code has it: after the query stage returned a parse error the
\* request has no questionMsg, so the logging stage that is invoked with a
\* non-empty logging sequence returns the error of line 329 and no logging
\* module is ever evaluated for that request.
C12_LoggingRefusesAfterParseError ==
    /\ [](ret["query"].err = "unpack" => evald["logging"] = <<>>)
    /\ [][LoggingAfterParseError =>
            /\ ppc' = At("logging", "done")
            /\ ret'["logging"].err = "questions"]_vars

C12_Witness ==
    /\ ppc = At("logging", "done")
    /\ ret["query"].err = "unpack"
    /\ ret["logging"].err = "questions"
    /\ evald["logging"] = <<>>

(***************************************************************************)
(* C13: the second chance estimatorUpdate gives a slow, idle candidate.    *)
(***************************************************************************)
\* A getOne whose estimatorUpdate called rtt.Add: the branch of lines 175-180.
SecondChanceTaken == ev'.op = "getOne" /\ nAdd' = nAdd + 1

\* The entry at index i of the pool (Go index i - 1) is the candidate of a
\* second chance: slower than four times the best, idle for over a minute.
SecondChanceCandidate(i) ==
    /\ i > 1
    /\ objs[inner[i]].rtt > 0
    /\ objs[inner[i]].rtt >= 4 * objs[inner[1]].rtt
    /\ Elapsed(now, objs[inner[i]].lastActionTS) > Minute

\* C13: when estimatorUpdate takes the second-chance branch, it changes the
\* EWMA of the candidate and of no other server, and the candidate's EWMA
\* afterwards lies between twice the best server's EWMA and the candidate's
\* EWMA before, both included.
C13_SecondChanceWithinBounds ==
    [][SecondChanceTaken =>
         /\ \E i \in 1..Len(inner) : objs'[inner[i]].rtt # objs[inner[i]].rtt
         /\ \A i \in 1..Len(inner) :
               objs'[inner[i]].rtt # objs[inner[i]].rtt =>
                  /\ SecondChanceCandidate(i)
                  /\ objs'[inner[i]].rtt >= 2 * objs[inner[1]].rtt
                  /\ objs'[inner[i]].rtt <= objs[inner[i]].rtt]_vars

C13_Witness ==
    /\ ev.op = "getOne"
    /\ nAdd = 1
    /\ \E i \in 1..Len(inner) :
          /\ objs[inner[i]].rtt \notin {10, 40, 160}
          /\ objs[inner[i]].rtt >= 2 * 40
          /\ objs[inner[i]].rtt < 160

(***************************************************************************)
(* C14: estimatorUpdate called again and again on a pool of two, the       *)
(* candidate always index 1, no notice* in between.                        *)
(***************************************************************************)
BestRtts == {10, 20}

SlowRtts == {200, 400}

\* A pool of two: a best server and a much slower one that was never used
\* (zero lastActionTS) or was used at time 0.
InitChance ==
    /\ \E bRtt \in BestRtts, cRtt \in SlowRtts, ts \in {ZeroTS, 0} :
          objs = [i \in 1..2 |->
                    [Name |-> i,
                     initialRtt |-> IF i = 1 THEN bRtt ELSE cRtt,
                     rtt |-> IF i = 1 THEN bRtt ELSE cRtt,
                     lastActionTS |-> IF i = 1 THEN ZeroTS ELSE ts]]
    /\ inner = <<1, 2>>
    /\ registeredServers = [i \in 1..2 |-> [Name |-> i, Stamp |-> 1]]
    /\ lastReg = [i \in 1..2 |-> 1]
    /\ insSeq = <<1, 2>>
    /\ instSeq = <<1, 2>>
    /\ lastInstall = <<1, 2>>
    /\ LBStrategy = "P2"
    /\ LBEstimator = TRUE
    /\ InitLocals
    /\ InitPluginsWith(DefaultConfig)
    /\ InitFetch

\* estimatorUpdate, lines 159-190, with rand.Intn returning 1.
EstimatorRound ==
    /\ Len(inner) = 2
    /\ LET e == EstimatorUpdate(inner, objs, 2, now)
       IN  /\ inner' = e.inner
           /\ objs' = e.objs
           /\ clean' = (clean /\ ~e.added)
    /\ ev' = Ev("estimatorUpdate", "", 2)
    /\ UNCHANGED <<registeredServers, LBStrategy, LBEstimator, now>>
    /\ UNCHANGED <<refVars, cliVars, cntVars>>
    /\ UNCHANGED <<lastReg, lastFail, insSeq, instSeq, lastInstall, tear>>
    /\ UNCHANGED <<plugVars, fetchVars, lockVars>>

NextChance ==
    \/ EstimatorRound
    \/ \E d \in Delays : Tick(d)

\* estimatorUpdate is called for ever: whenever a call would change
\* something, a call is eventually made.
SpecChance == InitChance /\ [][NextChance]_vars /\ WF_vars(EstimatorRound)

\* The slow server, object 2, has been idle for over a minute.
SlowIsIdle == Elapsed(now, objs[2].lastActionTS) > Minute

\* C14 as stated: the EWMA of the slow server never increases, and once it is
\* idle for over a minute the EWMA eventually falls below the best server's
\* and the two swap, the slow server standing at index 0.
C14_LoweredUntilSwap ==
    /\ [][objs'[2].rtt <= objs[2].rtt]_vars
    /\ (SlowIsIdle ~> inner[1] = 2)

\* C14 as the code has it: the EWMA of the slow server never increases, it
\* is lowered only while it is at least four times the best server's, it
\* never falls below twice the best server's, and the two never swap.
C14_LoweredButNeverSwapped ==
    /\ [][/\ objs'[2].rtt <= objs[2].rtt
          /\ objs'[2].rtt < objs[2].rtt =>
                SlowIsIdle /\ objs[2].rtt >= 4 * objs[1].rtt]_vars
    /\ [](objs[2].rtt >= 2 * objs[1].rtt /\ inner = <<1, 2>>)

\* The second chances have been used up: the slow server is idle and its
\* EWMA stands below four times the best server's, and still above it.
C14_Witness ==
    /\ ev.op = "estimatorUpdate"
    /\ SlowIsIdle
    /\ objs[1].rtt = 10
    /\ objs[2].initialRtt = 200
    /\ objs[2].rtt < 4 * objs[1].rtt
    /\ objs[2].rtt > objs[1].rtt

(***************************************************************************)
(* C15: what getOne and the notice* operations leave alone.                *)
(***************************************************************************)
ClientOps ==
    {"getOne", "noticeBegin", "noticeFailure", "noticeSuccessNow", "noticeSuccess"}

\* The entries of the pool and their names stay the same set, and as many.
SameMembers ==
    /\ Len(inner') = Len(inner)
    /\ Range(inner') = Range(inner)
    /\ \A i \in DOMAIN inner : objs'[inner[i]].Name = objs[inner[i]].Name

\* C15: getOne (with estimatorUpdate and its bubble pass), noticeBegin,
\* noticeSuccess and noticeFailure never add an entry to the pool nor remove
\* one; the only step that changes the membership of the pool is
\* refreshServer's installation of a ServerInfo.
C15_OnlyRefreshChangesMembership ==
    [][/\ ev'.op \in ClientOps => SameMembers
       /\ ~SameMembers => ev'.op = "install"]_vars

\* A getOne whose estimatorUpdate gave a second chance in a pool of two.
C15_Witness ==
    /\ ev.op = "getOne"
    /\ nAdd = 1
    /\ Len(inner) = 2
    /\ Cardinality(Range(inner)) = 2

(***************************************************************************)
(* C16: the count refresh returns.                                         *)
(***************************************************************************)
\* C16: with no other refresh running, the liveServers count a refresh
\* returns counts each registered name whose probe succeeded once, so it is
\* at most the number of distinct names of the registry and never exceeds the
\* size of the pool at the moment refresh returns.
C16_LiveCountWithinPool ==
    ev.op = "sort" =>
        /\ ev.live <= Len(inner)
        /\ ev.live <= Cardinality({registeredServers[i].Name :
                                      i \in DOMAIN registeredServers})

(***************************************************************************)
(* C17: the probe of a DoH server, for every stamp and every answer.       *)
(***************************************************************************)
InitDoH ==
    /\ InitPool
    /\ LBStrategy = "P2"
    /\ LBEstimator = TRUE
    /\ InitPluginsWith(DefaultConfig)
    /\ dohStamp \in [Hashes : SeqsUpTo(StampHashes, MaxHashes)]
    /\ dohResp \in DoHResponses
    /\ fetched = NoFetch
    /\ proxy = NoProxy
    /\ routeName = 0
    /\ routed = NoRoute

NextDoH == FetchDoHServerInfo

SpecDoH == InitDoH /\ [][NextDoH]_vars

\* The probe went through: a query method worked, the measured query was
\* answered, the body was read.
ProbeAnswered ==
    /\ dohResp.postOk \/ dohResp.getOk
    /\ dohResp.measureOk
    /\ dohResp.readOk

\* The body passes the checks of lines 395-396.
BodyPasses == dohResp.size = "within" /\ dohResp.idOk /\ dohResp.flagsOk

\* Some hash of the stamp, 32 bytes long, is the SHA-256 digest of the TBS
\* section of some certificate the server presented.
Pinned ==
    \E i \in DOMAIN dohResp.certs, j \in DOMAIN dohStamp.Hashes :
        /\ dohStamp.Hashes[j].len = Sha256Size
        /\ dohStamp.Hashes[j].bytes = Sum256(dohResp.certs[i])

\* C17: fetchDoHServerInfo returns a ServerInfo only if the stamp has no
\* hashes or some 32-byte hash of the stamp equals the SHA-256 digest of the
\* TBS bytes of some peer certificate; and when the stamp has no hashes,
\* every answered probe whose TLS handshake completed and whose body passes
\* the checks is accepted.
C17_AcceptedOnlyIfPinned ==
    fetched.done =>
        /\ fetched.ok => (dohStamp.Hashes = <<>> \/ Pinned)
        /\ (dohStamp.Hashes = <<>> /\ ProbeAnswered /\ dohResp.tls = "complete"
              /\ BodyPasses) => fetched.ok

\* Accepted on the second hash of the stamp, the first one being too short.
C17_Witness ==
    /\ fetched.ok
    /\ Len(dohStamp.Hashes) = 2
    /\ dohStamp.Hashes[1].len # Sha256Size
    /\ Len(dohResp.certs) = 2
    /\ dohStamp.Hashes[2].bytes = Sum256(dohResp.certs[2])
    /\ dohStamp.Hashes[2].bytes # Sum256(dohResp.certs[1])

(***************************************************************************)
(* C18: the question the logging stage requires.                           *)
(***************************************************************************)
\* C18: the logging stage gets past its test of the question, to its range
\* and to the Eval of a logging module, only for a request whose questionMsg
\* is present and holds exactly one question; with no questionMsg, with no
\* question or with more than one it returns an error and evaluates nothing.
C18_LoggingNeedsOneQuestion ==
    (ppc.stage = "logging" /\ ppc.at # "done") \/ evald["logging"] # <<>> =>
        pluginsState.questionMsg.nq = 1

(***************************************************************************)
(* C19: the response a rejecting stage leaves behind.                      *)
(***************************************************************************)
\* The stage has returned no error and the action is Reject.
RejectedBy(stage) ==
    /\ ppc = At(stage, "done")
    /\ ret[stage].err = "nil"
    /\ pluginsState.action = "Reject"

\* C19: whenever the query stage or the response stage returns without error
\* with the action Reject, synthResponse is the refused response that this
\* invocation of this stage synthesized, for this request, from the msg the
\* stage unpacked and its plugins edited.
C19_RejectLeavesRefusedResponse ==
    \A stage \in EvalStages :
        RejectedBy(stage) =>
            /\ pluginsState.synthResponse.by = "refused"
            /\ pluginsState.synthResponse.stage = stage
            /\ pluginsState.synthResponse.req = nRequest
            /\ pluginsState.synthResponse.of.nq = msg.nq
            /\ pluginsState.synthResponse.of.rcode = msg.rcode
            /\ pluginsState.synthResponse.of.edited = msg.edited

\* The response stage rejected a response a plugin had edited.
C19_Witness ==
    /\ RejectedBy("response")
    /\ pluginsState.synthResponse.stage = "response"
    /\ pluginsState.synthResponse.of.edited
    /\ Len(evald["response"]) > 0

(***************************************************************************)
(* C20: route, for every routing map and every pair of registries.         *)
(***************************************************************************)
InitRoute ==
    /\ InitPool
    /\ LBStrategy = "P2"
    /\ LBEstimator = TRUE
    /\ InitPluginsWith(DefaultConfig)
    /\ dohStamp = NoStamp
    /\ dohResp = NoResponse
    /\ fetched = NoFetch
    /\ proxy \in [Routes : RouteMaps,
                  RegisteredRelays : SeqsUpTo(RelayEntries, MaxRegistered),
                  RegisteredServers : SeqsUpTo(ServerEntries, MaxRegistered)]
    /\ routeName \in Names
    /\ routed = NoRoute

NextRoute == \E candidate \in 1..MaxRelays : Route(candidate)

SpecRoute == InitRoute /\ [][NextRoute]_vars

\* C20: when the relay route drew is a name (no stamp string, no host:port),
\* the relay registry is consulted first and the server registry only when
\* the relay registry has no entry of that name: for a name that both
\* registries hold, route goes by the stamp of the relay registry.
C20_RelayRegistryFirst ==
    routed.done /\ routed.relayName.kind = "name" =>
        LET fromRelays == FirstNamed(proxy.RegisteredRelays, routed.relayName.name, 1)
            fromServers == FirstNamed(proxy.RegisteredServers, routed.relayName.name, 1)
        IN  routed = RouteVia(IF fromRelays # NilStamp THEN fromRelays ELSE fromServers,
                              routed.relayName)

(***************************************************************************)
(* C21: the entry a notice reaches after a refresh replaced its slot.      *)
(***************************************************************************)
\* The sample the notice step of client c feeds to rtt.Add: the timeout for
\* noticeFailure (line 418), the elapsed time for noticeSuccess (line 434).
NoticeSample(c) ==
    IF cpc[c] = "begun" THEN TimeoutMs
    ELSE Elapsed(tnow[c], objs[srv[c]].lastActionTS)

\* Client c's noticeFailure, or its noticeSuccess when it calls rtt.Add.
NoticeAdds(c) ==
    /\ cpc[c] \in {"begun", "success"}
    /\ cpc'[c] = "idle"
    /\ ev'.who = c
    /\ \/ ev'.op = "noticeFailure"
       \/ ev'.op = "noticeSuccess" /\ ev'.arg = 1

\* The slots of the live pool that hold an entry of this name.
LiveSlots(name) == {i \in DOMAIN inner : objs[inner[i]].Name = name}

\* C21: a noticeSuccess or noticeFailure issued for a server obtained from
\* getOne adds its sample to the EWMA of the entry that is in the live pool
\* under that server's name at the time of the notice, even when a
\* successful refresh replaced that name's slot since the getOne.
C21_NoticeReachesLiveEntry ==
    [][\A c \in Clients :
          NoticeAdds(c) =>
              \A i \in LiveSlots(objs[srv[c]].Name) :
                  objs'[inner[i]].rtt =
                      EwmaAdd(objs[inner[i]].rtt, NoticeSample(c))]_vars

(***************************************************************************)
(* C22: two requests in flight on one ServerInfo.                          *)
(***************************************************************************)
\* A pool of one server that a refresh installed. The request of c1 got it
\* from getOne and ran its noticeBegin at time 0; c2 has not called getOne
\* yet.
InitFlight ==
    /\ \E r \in Rtts :
          objs = <<[NewServer(1, r) EXCEPT !.lastActionTS = 0]>>
    /\ inner = <<1>>
    /\ registeredServers = <<[Name |-> 1, Stamp |-> 1]>>
    /\ lastReg = [n \in Names |-> IF n = 1 THEN 1 ELSE 0]
    /\ insSeq = <<1>>
    /\ instSeq = <<1>>
    /\ lastInstall = [n \in Names |-> IF n = 1 THEN 1 ELSE 0]
    /\ LBStrategy \in Strategies
    /\ LBEstimator \in BOOLEAN
    /\ now \in {0, TickMs}
    /\ rpc = [p \in RefreshProcs |-> "idle"]
    /\ snap = [p \in RefreshProcs |-> <<>>]
    /\ ridx = NoRefresh
    /\ cur = [p \in RefreshProcs |-> NoCur]
    /\ isNew = [p \in RefreshProcs |-> FALSE]
    /\ liveServers = NoRefresh
    /\ rerr = NoRefresh
    /\ cpc = [c \in Requests |-> IF c = "c1" THEN "begun" ELSE "idle"]
    /\ srv = [c \in Requests |-> IF c = "c1" THEN 1 ELSE 0]
    /\ tnow = [c \in Requests |-> 0]
    /\ begunAt = [c \in Requests |-> 0]
    /\ nRegister = 0 /\ nRefresh = 0 /\ nAdd = 0 /\ nTicks = 0 /\ nGetOne = 0
    /\ ev = Ev("noticeBegin", "c1", 0)
    /\ lastFail = NoRefresh
    /\ tear = [p \in RefreshProcs |-> NoTear]
    /\ clean = FALSE
    /\ InitMutex
    /\ InitPluginsWith(DefaultConfig)
    /\ InitFetch

NextFlight ==
    \/ \E c \in Requests : GetOne(c)
    \/ \E c \in Requests : NoticeBegin(c)
    \/ \E c \in Requests : NoticeFailure(c)
    \/ \E c \in Requests : NoticeSuccessNow(c)
    \/ \E c \in Requests : NoticeSuccess(c)
    \/ \E d \in Delays : Tick(d)

SpecFlight == InitFlight /\ [][NextFlight]_vars

\* The time elapsed, at the now noticeSuccess read, since the noticeBegin
\* of the same request.
OwnElapsed(c) == tnow[c] - begunAt[c]

\* C22: when several requests are in flight on the same ServerInfo, the
\* sample that noticeSuccess feeds into the server's EWMA for a request is
\* the time elapsed since that same request's noticeBegin: it feeds a sample
\* exactly when that time is positive and under the timeout, and the sample
\* is that time.
C22_SampleIsOwnElapsed ==
    [][\A c \in Requests :
          (cpc[c] = "success" /\ cpc'[c] = "idle") =>
              IF OwnElapsed(c) > 0 /\ OwnElapsed(c) < TimeoutMs
              THEN objs'[srv[c]].rtt = EwmaAdd(objs[srv[c]].rtt, OwnElapsed(c))
              ELSE objs'[srv[c]].rtt = objs[srv[c]].rtt]_vars

(***************************************************************************)
(* C23: the RWMutex of ServersInfo and the calls that take it. lpc is the  *)
(* source line a goroutine stands at: at a Lock or RLock line it is in     *)
(* that call and has not returned from it. What the critical sections      *)
(* compute is in the actions above; of it, only the length of the range    *)
(* of refresh and the outcome of the probe decide which lock operations    *)
(* follow, and both are drawn here.                                        *)
(***************************************************************************)
LockLines == {80, 112, 140, 193, 417, 423, 430}

RLockLines == {93, 130}

\* sync.RWMutex. Lock returns once no goroutine holds the mutex; RLock once
\* no writer holds it and no Lock call is blocked (a blocked Lock call
\* excludes new readers).
CanLock(m) == m.w = "" /\ m.r = {}

CanRLock(m) == m.w = "" /\ \A p \in Goroutines : lpc[p] \notin LockLines

Lock(m, p) == [m EXCEPT !.w = p]

Unlock(m, p) == [m EXCEPT !.w = ""]

RLock(m, p) == [m EXCEPT !.r = @ \cup {p}]

RUnlock(m, p) == [m EXCEPT !.r = @ \ {p}]

Goes(p, from, to) ==
    /\ lpc[p] = from
    /\ lpc' = [lpc EXCEPT ![p] = to]
    /\ UNCHANGED <<poolVars, refVars, cliVars, cntVars, histVars, plugVars, fetchVars>>

\* registerServer, lines 78-90: Lock at 80, Unlock deferred to the return.
RegisterServerCall(p) == Goes(p, 0, 80) /\ UNCHANGED <<mu, todo>>

RegisterServerLock(p) ==
    Goes(p, 80, 82) /\ CanLock(mu) /\ mu' = Lock(mu, p) /\ UNCHANGED todo

RegisterServerReturn(p) ==
    Goes(p, 82, 0) /\ mu' = Unlock(mu, p) /\ UNCHANGED todo

\* refresh, lines 128-157. Lines 130-132: the registry is read under RLock;
\* its length is what the range of line 135 has to do.
RefreshCall(p) == Goes(p, 0, 130) /\ UNCHANGED <<mu, todo>>

RefreshRLock(p) ==
    Goes(p, 130, 131) /\ CanRLock(mu) /\ mu' = RLock(mu, p) /\ UNCHANGED todo

RefreshRUnlock(p) ==
    /\ Goes(p, 131, 135)
    /\ mu' = RUnlock(mu, p)
    /\ \E n \in 0..MaxRegistered : todo' = [todo EXCEPT ![p] = n]

\* Lines 135-136: the next entry goes to refreshServer; line 140 after the
\* last.
RefreshRange(p) ==
    /\ IF todo[p] > 0 THEN Goes(p, 135, 93) ELSE Goes(p, 135, 140)
    /\ todo' = [todo EXCEPT ![p] = IF @ > 0 THEN @ - 1 ELSE 0]
    /\ UNCHANGED mu

\* refreshServer, lines 92-126. Lines 93-101: the scan for isNew, under
\* RLock.
RefreshServerRLock(p) ==
    Goes(p, 93, 94) /\ CanRLock(mu) /\ mu' = RLock(mu, p) /\ UNCHANGED todo

\* A variant of RefreshServerRUnlock whose RUnlock is deferred to the
\* return of refreshServer.
RefreshServerRUnlockDeferred(p) == Goes(p, 94, 102) /\ UNCHANGED <<mu, todo>>

\* Line 101, and the call of fetchServerInfo at line 102.
RefreshServerRUnlock(p) ==
    Goes(p, 94, 102) /\ mu' = RUnlock(mu, p) /\ UNCHANGED todo

\* fetchServerInfo, lines 218-226, returns an error: lines 103-105.
FetchServerInfoErr(p) == Goes(p, 102, 135) /\ UNCHANGED <<mu, todo>>

\* fetchServerInfo returns a ServerInfo: lines 106-111.
FetchServerInfoOk(p) == Goes(p, 102, 112) /\ UNCHANGED <<mu, todo>>

\* Lines 112-125: the ServerInfo is installed under Lock.
RefreshServerLock(p) ==
    Goes(p, 112, 113) /\ CanLock(mu) /\ mu' = Lock(mu, p) /\ UNCHANGED todo

RefreshServerUnlock(p) ==
    Goes(p, 113, 135) /\ mu' = Unlock(mu, p) /\ UNCHANGED todo

\* refresh, lines 140-156: the sort, under Lock.
RefreshLock(p) ==
    Goes(p, 140, 141) /\ CanLock(mu) /\ mu' = Lock(mu, p) /\ UNCHANGED todo

RefreshUnlock(p) ==
    Goes(p, 141, 0) /\ mu' = Unlock(mu, p) /\ UNCHANGED todo

\* getOne, lines 192-217: Lock at 193, Unlock deferred to the return;
\* estimatorUpdate (lines 159-190), called at line 200, takes no lock.
GetOneCall(c) == Goes(c, 0, 193) /\ UNCHANGED <<mu, todo>>

GetOneLock(c) ==
    Goes(c, 193, 195) /\ CanLock(mu) /\ mu' = Lock(mu, c) /\ UNCHANGED todo

GetOneReturn(c) ==
    Goes(c, 195, 0) /\ mu' = Unlock(mu, c) /\ UNCHANGED todo

\* noticeFailure, lines 416-420.
NoticeFailureCall(c) == Goes(c, 0, 417) /\ UNCHANGED <<mu, todo>>

NoticeFailureLock(c) ==
    Goes(c, 417, 418) /\ CanLock(mu) /\ mu' = Lock(mu, c) /\ UNCHANGED todo

NoticeFailureUnlock(c) ==
    Goes(c, 418, 0) /\ mu' = Unlock(mu, c) /\ UNCHANGED todo

\* noticeBegin, lines 422-426.
NoticeBeginCall(c) == Goes(c, 0, 423) /\ UNCHANGED <<mu, todo>>

NoticeBeginLock(c) ==
    Goes(c, 423, 424) /\ CanLock(mu) /\ mu' = Lock(mu, c) /\ UNCHANGED todo

NoticeBeginUnlock(c) ==
    Goes(c, 424, 0) /\ mu' = Unlock(mu, c) /\ UNCHANGED todo

\* noticeSuccess, lines 428-437: line 429 runs before the Lock of line 430.
NoticeSuccessCall(c) == Goes(c, 0, 430) /\ UNCHANGED <<mu, todo>>

NoticeSuccessLock(c) ==
    Goes(c, 430, 431) /\ CanLock(mu) /\ mu' = Lock(mu, c) /\ UNCHANGED todo

NoticeSuccessUnlock(c) ==
    Goes(c, 431, 0) /\ mu' = Unlock(mu, c) /\ UNCHANGED todo

InitLock ==
    /\ InitPool
    /\ LBStrategy = "P2"
    /\ LBEstimator = TRUE
    /\ InitPluginsWith(DefaultConfig)
    /\ InitFetch

NextLock ==
    \/ \E p \in Registrars : RegisterServerCall(p)
    \/ \E p \in Registrars : RegisterServerLock(p)
    \/ \E p \in Registrars : RegisterServerReturn(p)
    \/ \E p \in RefreshProcs : RefreshCall(p)
    \/ \E p \in RefreshProcs : RefreshRLock(p)
    \/ \E p \in RefreshProcs : RefreshRUnlock(p)
    \/ \E p \in RefreshProcs : RefreshRange(p)
    \/ \E p \in RefreshProcs : RefreshServerRLock(p)
    \/ \E p \in RefreshProcs : RefreshServerRUnlock(p)
    \/ \E p \in RefreshProcs : FetchServerInfoErr(p)
    \/ \E p \in RefreshProcs : FetchServerInfoOk(p)
    \/ \E p \in RefreshProcs : RefreshServerLock(p)
    \/ \E p \in RefreshProcs : RefreshServerUnlock(p)
    \/ \E p \in RefreshProcs : RefreshLock(p)
    \/ \E p \in RefreshProcs : RefreshUnlock(p)
    \/ \E c \in Requests : GetOneCall(c)
    \/ \E c \in Requests : GetOneLock(c)
    \/ \E c \in Requests : GetOneReturn(c)
    \/ \E c \in Requests : NoticeFailureCall(c)
    \/ \E c \in Requests : NoticeFailureLock(c)
    \/ \E c \in Requests : NoticeFailureUnlock(c)
    \/ \E c \in Requests : NoticeBeginCall(c)
    \/ \E c \in Requests : NoticeBeginLock(c)
    \/ \E c \in Requests : NoticeBeginUnlock(c)
    \/ \E c \in Requests : NoticeSuccessCall(c)
    \/ \E c \in Requests : NoticeSuccessLock(c)
    \/ \E c \in Requests : NoticeSuccessUnlock(c)

\* The return of a Lock or RLock call of goroutine p.
Acquires(p) ==
    \/ RegisterServerLock(p)
    \/ RefreshRLock(p)
    \/ RefreshServerRLock(p)
    \/ RefreshServerLock(p)
    \/ RefreshLock(p)
    \/ GetOneLock(p)
    \/ NoticeFailureLock(p)
    \/ NoticeBeginLock(p)
    \/ NoticeSuccessLock(p)

\* The steps of goroutine p that end a critical section.
Releases(p) ==
    \/ RegisterServerReturn(p)
    \/ RefreshRUnlock(p)
    \/ RefreshServerRUnlock(p)
    \/ RefreshServerUnlock(p)
    \/ RefreshUnlock(p)
    \/ GetOneReturn(p)
    \/ NoticeFailureUnlock(p)
    \/ NoticeBeginUnlock(p)
    \/ NoticeSuccessUnlock(p)

\* A goroutine that can run does run: it leaves its critical section, and
\* refresh goes on with its range. The mutex hands itself to a goroutine
\* blocked in Lock or RLock that could take it again and again. No call is
\* ever bound to be made, and fetchServerInfo is not bound to return.
SpecLock ==
    /\ InitLock
    /\ [][NextLock]_vars
    /\ \A p \in Goroutines : WF_vars(Releases(p))
    /\ \A p \in RefreshProcs : WF_vars(RefreshRange(p))
    /\ \A p \in Goroutines : SF_vars(Acquires(p))

HoldsLock(p) == mu.w = p \/ p \in mu.r

\* fetchServerInfo, called by refreshServer at line 102, has not returned.
InProbe(p) == lpc[p] = 102

\* In a Lock or RLock call that has not returned.
Blocked(p) == lpc[p] \in LockLines \cup RLockLines

\* In a call of getOne, noticeBegin, noticeSuccess or noticeFailure.
InCall(c) == lpc[c] # 0

LockDiscipline ==
    /\ \A p \in RefreshProcs : InProbe(p) => ~HoldsLock(p)
    /\ \A p \in Goroutines : Blocked(p) => ~HoldsLock(p)
    /\ (\E p \in Goroutines : Blocked(p)) =>
           \E q \in Goroutines : ENABLED (Acquires(q) \/ Releases(q))

\* C23: no lock of the pool is held by refresh while the probe it started
\* (fetchServerInfo) is in progress, and no goroutine calls Lock or RLock
\* while it holds the lock; for every interleaving of registerServer,
\* refresh, getOne and notice* there is no deadlock (whenever a goroutine is
\* blocked, one can take the lock or release it), and every call of getOne
\* and notice* eventually returns under fair scheduling, even if a probe
\* never returns.
C23_NoDeadlockCallsComplete ==
    /\ []LockDiscipline
    /\ \A c \in Requests : InCall(c) ~> ~InCall(c)

\* A probe is in progress, a client is inside getOne with the lock, and the
\* other client is blocked in a Lock call.
C23_Witness ==
    /\ \E p \in RefreshProcs : InProbe(p)
    /\ \E c \in Requests : lpc[c] = 195 /\ mu.w = c
    /\ \E c \in Requests : Blocked(c)

====
